---------------------------- MODULE Spec2Model ----------------------------
(***************************************************************************)
(* A model of the rsrcfork resource-file reader (rsrcfork/api.py), its     *)
(* byte-stream helpers (rsrcfork/_io_utils.py) and the decompression code  *)
(* it calls (rsrcfork/compress).                                           *)
(*                                                                         *)
(* Bytes are the integers 0..255, byte strings are sequences of bytes.     *)
(* A Python stream is a record [data, pos, closed]; pos is the 0-based     *)
(* offset of the next byte read.  An exception is the name of its class,   *)
(* "none" when the call returned.                                          *)
(*                                                                         *)
(* objs are the ResourceFile objects and last the last property read from  *)
(* each; streams are the streams handed out by Resource.open_raw and       *)
(* Resource.open; run is the run of a decoder or of a function of          *)
(* rsrcfork/compress on its own, a ResourceFile of the older module in one *)
(* file, rsrcfork.py, or a caller's calls on a peek wrapper or on a        *)
(* SubStream.                                                              *)
(***************************************************************************)
EXTENDS Integers, Sequences, FiniteSets, TLC

VARIABLES objs, last, streams, run

vars == <<objs, last, streams, run>>

(***************************************************************************)
(* Fixed-width integers (struct formats ">H", ">h", ">I").                 *)
(***************************************************************************)
Min(a, b) == IF a < b THEN a ELSE b

Max(a, b) == IF a > b THEN a ELSE b

U16(b, i) == b[i] * 256 + b[i + 1]

I16(b, i) == IF U16(b, i) >= 32768 THEN U16(b, i) - 65536 ELSE U16(b, i)

U32(b, i) == ((b[i] * 256 + b[i + 1]) * 256 + b[i + 2]) * 256 + b[i + 3]

\* struct.pack of ">H", of 3 bytes and of ">I"
BE16(v) == <<(v \div 256) % 256, v % 256>>

BE24(v) == <<(v \div 65536) % 256, (v \div 256) % 256, v % 256>>

BE32(v) == <<(v \div 16777216) % 256, (v \div 65536) % 256, (v \div 256) % 256, v % 256>>

Zeros(n) == [i \in 1..n |-> 0]

\* b"".join(ss)
RECURSIVE Flatten(_)
Flatten(ss) == IF ss = <<>> THEN <<>> ELSE Head(ss) \o Flatten(Tail(ss))

\* b[:n]
Prefix(b, n) == SubSeq(b, 1, Min(Len(b), n))

(***************************************************************************)
(* struct sizes of rsrcfork/api.py                                         *)
(***************************************************************************)
STRUCT_RESOURCE_HEADER_size == 256

STRUCT_RESOURCE_DATA_HEADER_size == 4

STRUCT_RESOURCE_MAP_HEADER_size == 28

STRUCT_RESOURCE_TYPE_LIST_HEADER_size == 2

STRUCT_RESOURCE_TYPE_size == 8

STRUCT_RESOURCE_REFERENCE_size == 12

STRUCT_RESOURCE_NAME_HEADER_size == 1

NAME_OFFSET_NONE == 65535

resCompressed == 1

(***************************************************************************)
(* Python streams.  A call returns [s |-> the stream afterwards,           *)
(* ret |-> the value returned, exc |-> the exception raised].              *)
(***************************************************************************)
\* K applied to the value v: v is computed once and named by K's parameter
Bind(v, K(_)) == K(v)

\* the same with v computed before K is applied, also where the enabling
\* condition of an action is computed; K holds no primed variable
Once(v, K(_)) == CHOOSE r \in {K(x) : x \in {v}} : TRUE

Slice(data, from, to) == SubSeq(data, from + 1, Min(to, Len(data)))

\* stream.read(size): size < 0 reads to the end of the stream
PyRead(s, size) ==
    IF s.closed
    THEN [s |-> s, ret |-> <<>>, exc |-> "ValueError"]
    ELSE LET to == IF size < 0 THEN Len(s.data) ELSE s.pos + size
             got == Slice(s.data, s.pos, to)
         IN [s |-> [s EXCEPT !.pos = s.pos + Len(got)], ret |-> got, exc |-> "none"]

\* stream.seek(offset) with whence SEEK_SET
PySeek(s, offset) ==
    IF s.closed \/ offset < 0
    THEN [s |-> s, ret |-> 0, exc |-> "ValueError"]
    ELSE [s |-> [s EXCEPT !.pos = offset], ret |-> offset, exc |-> "none"]

\* stream.seek(0, io.SEEK_END)
PySeekEnd(s) ==
    IF s.closed
    THEN [s |-> s, ret |-> 0, exc |-> "ValueError"]
    ELSE [s |-> [s EXCEPT !.pos = Len(s.data)], ret |-> Len(s.data), exc |-> "none"]

\* _io_utils.read_exact
read_exact(s, byte_count) ==
    Bind(PyRead(s, byte_count), LAMBDA r :
        IF r.exc # "none" THEN r
        ELSE IF Len(r.ret) # byte_count THEN [r EXCEPT !.exc = "EOFError"]
        ELSE r)


(***************************************************************************)
(* Optional values (None or a value) and ordered dictionaries.             *)
(***************************************************************************)
NoneBytes == [some |-> FALSE, val |-> <<>>]

SomeBytes(b) == [some |-> TRUE, val |-> b]

\* The index of key in the OrderedDict od (a sequence of [key, val]), 0 when absent
OD_Index(od, key) ==
    IF \E i \in 1..Len(od) : od[i].key = key
    THEN CHOOSE i \in 1..Len(od) : od[i].key = key
    ELSE 0

\* od[key] = val: a new key goes to the end, an old key keeps its place
OD_Set(od, key, val) ==
    IF OD_Index(od, key) = 0
    THEN Append(od, [key |-> key, val |-> val])
    ELSE [od EXCEPT ![OD_Index(od, key)].val = val]

OD_Keys(od) == [i \in 1..Len(od) |-> od[i].key]

(***************************************************************************)
(* class ResourceFile.  An object o holds the caller's stream (src), the   *)
(* in-memory copy made for a non-seekable stream (mem), and the attributes *)
(* set by __init__ and the _read_* methods.  o.io counts the calls made on *)
(* self._stream by the running method.                                     *)
(***************************************************************************)
SelfStream(o) == IF o.wrapped THEN o.mem ELSE o.src

SetSelfStream(o, s) ==
    IF o.wrapped THEN [o EXCEPT !.mem = s, !.io = @ + 1]
    ELSE [o EXCEPT !.src = s, !.io = @ + 1]

\* self._stream.seek(offset)
_stream_seek(o, offset) ==
    Bind(PySeek(SelfStream(o), offset), LAMBDA r :
        [o |-> SetSelfStream(o, r.s), ret |-> r.ret, exc |-> r.exc])

\* ResourceFile._read_exact
_read_exact(o, byte_count) ==
    Bind(read_exact(SelfStream(o), byte_count), LAMBDA r :
        [o |-> SetSelfStream(o, r.s), ret |-> r.ret,
         exc |-> IF r.exc = "EOFError" THEN "InvalidResourceFileError" ELSE r.exc])

\* ResourceFile._stream_unpack: the st.size bytes the struct is unpacked from
\* (struct.error cannot occur: _read_exact returns exactly st.size bytes)
_stream_unpack(o, size) == _read_exact(o, size)

\* A faulty __init__: of a stream that is not seekable it copies the header only
ResourceFile_init_header_copy(stream, seekable, close) ==
    Bind(PyRead(stream, STRUCT_RESOURCE_HEADER_size), LAMBDA rd :
        [src |-> IF seekable THEN stream ELSE rd.s,
         mem |-> IF seekable THEN [data |-> <<>>, pos |-> 0, closed |-> FALSE]
                 ELSE [data |-> rd.ret, pos |-> 0, closed |-> FALSE],
         wrapped |-> ~seekable,
         close_stream |-> close,
         pc |-> "Unopened", exc |-> "none", io |-> 0,
         data_offset |-> 0, map_offset |-> 0, data_length |-> 0, map_length |-> 0,
         header_system_data |-> <<>>, header_application_data |-> <<>>,
         file_attributes |-> 0, map_type_list_offset |-> 0, map_name_list_offset |-> 0,
         reference_counts |-> <<>>, references |-> <<>>])

\* ResourceFile.__init__, up to the try block
ResourceFile_init(stream, seekable, close) ==
    LET rd == PyRead(stream, -1)
    IN [src |-> IF seekable THEN stream ELSE rd.s,
        mem |-> IF seekable THEN [data |-> <<>>, pos |-> 0, closed |-> FALSE]
                ELSE [data |-> rd.ret, pos |-> 0, closed |-> FALSE],
        wrapped |-> ~seekable,
        close_stream |-> close,
        pc |-> "Unopened", exc |-> "none", io |-> 0,
        data_offset |-> 0, map_offset |-> 0, data_length |-> 0, map_length |-> 0,
        header_system_data |-> <<>>, header_application_data |-> <<>>,
        file_attributes |-> 0, map_type_list_offset |-> 0, map_name_list_offset |-> 0,
        reference_counts |-> <<>>, references |-> <<>>]

\* A faulty _read_header: the data offset is not compared with the position
_read_header_unchecked(o) ==
    IF SelfStream(o).pos # 0
    THEN [o |-> o, exc |-> "AssertionError"]
    ELSE Bind(_stream_unpack(o, STRUCT_RESOURCE_HEADER_size), LAMBDA r :
           IF r.exc # "none" THEN [o |-> r.o, exc |-> r.exc]
           ELSE [o |-> [r.o EXCEPT !.data_offset = U32(r.ret, 1),
                                   !.map_offset = U32(r.ret, 5),
                                   !.data_length = U32(r.ret, 9),
                                   !.map_length = U32(r.ret, 13),
                                   !.header_system_data = SubSeq(r.ret, 17, 128),
                                   !.header_application_data = SubSeq(r.ret, 129, 256)],
                 exc |-> "none"])

\* ResourceFile._read_header
_read_header(o) ==
    IF SelfStream(o).pos # 0
    THEN [o |-> o, exc |-> "AssertionError"]
    ELSE Bind(_stream_unpack(o, STRUCT_RESOURCE_HEADER_size), LAMBDA r :
           LET o1 == [r.o EXCEPT !.data_offset = U32(r.ret, 1),
                                 !.map_offset = U32(r.ret, 5),
                                 !.data_length = U32(r.ret, 9),
                                 !.map_length = U32(r.ret, 13),
                                 !.header_system_data = SubSeq(r.ret, 17, 128),
                                 !.header_application_data = SubSeq(r.ret, 129, 256)]
           IN IF r.exc # "none" THEN [o |-> r.o, exc |-> r.exc]
              ELSE IF SelfStream(o1).pos # o1.data_offset
              THEN [o |-> o1, exc |-> "InvalidResourceFileError"]
              ELSE [o |-> o1, exc |-> "none"])

\* ResourceFile._read_map_header
_read_map_header(o) ==
    IF SelfStream(o).pos # o.map_offset
    THEN [o |-> o, exc |-> "AssertionError"]
    ELSE Bind(_stream_unpack(o, STRUCT_RESOURCE_MAP_HEADER_size), LAMBDA r :
           IF r.exc # "none" THEN [o |-> r.o, exc |-> r.exc]
           ELSE [o |-> [r.o EXCEPT !.file_attributes = U16(r.ret, 23),
                                   !.map_type_list_offset = U16(r.ret, 25),
                                   !.map_name_list_offset = U16(r.ret, 27)],
                 exc |-> "none"])

\* the loop of _read_all_resource_types: n entries are still to be read
RECURSIVE read_types_loop(_, _)
read_types_loop(o, n) ==
    IF n = 0 THEN [o |-> o, exc |-> "none"]
    ELSE Bind(_stream_unpack(o, STRUCT_RESOURCE_TYPE_size), LAMBDA r :
           LET resource_type == SubSeq(r.ret, 1, 4)
               count_m1 == U16(r.ret, 5)
               count == (count_m1 + 1) % 65536
           IN IF r.exc # "none" THEN [o |-> r.o, exc |-> r.exc]
              ELSE read_types_loop(
                     [r.o EXCEPT !.reference_counts = OD_Set(@, resource_type, count)],
                     n - 1))

\* A faulty _read_all_resource_types: the type list length does not wrap around
_read_all_resource_types_no_wrap(o) ==
    Bind(_stream_unpack([o EXCEPT !.reference_counts = <<>>],
                        STRUCT_RESOURCE_TYPE_LIST_HEADER_size), LAMBDA r :
        IF r.exc # "none" THEN [o |-> r.o, exc |-> r.exc]
        ELSE read_types_loop(r.o, U16(r.ret, 1) + 1))

\* ResourceFile._read_all_resource_types
_read_all_resource_types(o) ==
    Bind(_stream_unpack([o EXCEPT !.reference_counts = <<>>],
                        STRUCT_RESOURCE_TYPE_LIST_HEADER_size), LAMBDA r :
        LET type_list_length_m1 == U16(r.ret, 1)
            type_list_length == (type_list_length_m1 + 1) % 65536
        IN IF r.exc # "none" THEN [o |-> r.o, exc |-> r.exc]
           ELSE read_types_loop(r.o, type_list_length))

\* class Resource, as __init__ leaves it: no cached attribute is set
Resource(resource_type, resource_id, name_offset, attributes, data_raw_offset) ==
    [type |-> resource_type, id |-> resource_id, name_offset |-> name_offset,
     attributes |-> attributes, data_raw_offset |-> data_raw_offset,
     has_name |-> FALSE, name |-> NoneBytes,
     has_length_raw |-> FALSE, length_raw |-> 0,
     has_data_raw |-> FALSE, data_raw |-> <<>>,
     has_compressed_info |-> FALSE, compressed_info |-> <<>>,
     has_data_decompressed |-> FALSE, data_decompressed |-> <<>>]

\* A faulty loop of _read_all_references: one reference less is read
read_refs_loop_one_less(o, ti, n) ==
    IF n <= 1 THEN [o |-> o, exc |-> "none"]
    ELSE Bind(_stream_unpack(o, STRUCT_RESOURCE_REFERENCE_size), LAMBDA r :
           IF r.exc # "none" THEN [o |-> r.o, exc |-> r.exc]
           ELSE [o |-> [r.o EXCEPT !.references[ti].val =
                           OD_Set(@, I16(r.ret, 1),
                                  Resource(o.references[ti].key, I16(r.ret, 1),
                                           U16(r.ret, 3), U32(r.ret, 5) \div 16777216,
                                           U32(r.ret, 5) % 16777216))],
                 exc |-> "none"])

\* the inner loop of _read_all_references: n references of type number ti
\* (an index into o.references) are still to be read
RECURSIVE read_refs_loop(_, _, _)
read_refs_loop(o, ti, n) ==
    IF n = 0 THEN [o |-> o, exc |-> "none"]
    ELSE Bind(_stream_unpack(o, STRUCT_RESOURCE_REFERENCE_size), LAMBDA r :
           LET resource_id == I16(r.ret, 1)
               name_offset == U16(r.ret, 3)
               attributes_and_data_offset == U32(r.ret, 5)
               attributes == attributes_and_data_offset \div 16777216
               data_offset == attributes_and_data_offset % 16777216
               res == Resource(o.references[ti].key, resource_id, name_offset,
                               attributes, data_offset)
           IN IF r.exc # "none" THEN [o |-> r.o, exc |-> r.exc]
              ELSE read_refs_loop(
                     [r.o EXCEPT !.references[ti].val = OD_Set(@, resource_id, res)],
                     ti, n - 1))

\* the outer loop of _read_all_references: the types from number ti on
RECURSIVE read_all_refs_loop(_, _)
read_all_refs_loop(o, ti) ==
    IF ti > Len(o.reference_counts) THEN [o |-> o, exc |-> "none"]
    ELSE Bind(read_refs_loop([o EXCEPT !.references =
                                  OD_Set(@, o.reference_counts[ti].key, <<>>)],
                             ti, o.reference_counts[ti].val), LAMBDA r :
           IF r.exc # "none" THEN r
           ELSE read_all_refs_loop(r.o, ti + 1))

\* ResourceFile._read_all_references
_read_all_references(o) ==
    read_all_refs_loop([o EXCEPT !.references = <<>>], 1)

\* A faulty close: the stream is left open whatever close_stream says
close_nothing(o) == o

\* ResourceFile.close
close(o) ==
    IF o.close_stream
    THEN IF o.wrapped THEN [o EXCEPT !.mem.closed = TRUE]
         ELSE [o EXCEPT !.src.closed = TRUE]
    ELSE o

\* ResourceFile.__len__
ResourceFile_len(o) == Len(o.references)

\* ResourceFile.__iter__
ResourceFile_iter(o) == OD_Keys(o.references)

\* _LazyResourceMap.__iter__ of the map o[type], type being number ti of iter(o)
LazyResourceMap_iter(o, ti) == OD_Keys(o.references[ti].val)

\* _LazyResourceMap.__len__
LazyResourceMap_len(o, ti) == Len(o.references[ti].val)

(***************************************************************************)
(* class SubStream (_io_utils.py): a view [start_offset, length,           *)
(* seek_position] of self._stream of the ResourceFile o.                   *)
(***************************************************************************)
\* SubStream.__init__
SubStream_init(o, start_offset, length) ==
    Bind(PySeekEnd(SelfStream(o)), LAMBDA r :
        LET ss == [start_offset |-> start_offset, length |-> length, seek_position |-> 0]
        IN IF r.exc # "none" THEN [o |-> o, ss |-> ss, exc |-> r.exc]
           ELSE IF start_offset + length > r.ret
           THEN [o |-> SetSelfStream(o, r.s), ss |-> ss, exc |-> "ValueError"]
           ELSE [o |-> SetSelfStream(o, r.s), ss |-> ss, exc |-> "none"])

\* _io_utils.make_substream
make_substream(o, start_offset, length) == SubStream_init(o, start_offset, length)

\* SubStream.seek; whence is "SEEK_SET", "SEEK_CUR" or "SEEK_END"
SubStream_seek(ss, offset, whence) ==
    IF whence = "SEEK_SET" /\ offset < 0
    THEN [ss |-> ss, ret |-> 0, exc |-> "ValueError"]
    ELSE LET p == CASE whence = "SEEK_SET" -> offset
                    [] whence = "SEEK_CUR" -> ss.seek_position + offset
                    [] OTHER -> ss.length - offset
             q == Max(0, Min(ss.length, p))
         IN [ss |-> [ss EXCEPT !.seek_position = q], ret |-> q, exc |-> "none"]

\* A faulty SubStream.read: the outer stream is read where it stands
SubStream_read_in_place(o, ss, size) ==
    Bind(PyRead(SelfStream(o),
                IF size < 0 \/ size > ss.length - ss.seek_position
                THEN ss.length - ss.seek_position ELSE size), LAMBDA rd :
        IF rd.exc # "none" THEN [o |-> o, ss |-> ss, ret |-> <<>>, exc |-> rd.exc]
        ELSE [o |-> SetSelfStream(o, rd.s),
              ss |-> [ss EXCEPT !.seek_position = @ + Len(rd.ret)],
              ret |-> rd.ret, exc |-> "none"])

\* SubStream.read
SubStream_read(o, ss, size) ==
    Bind(_stream_seek(o, ss.start_offset + ss.seek_position), LAMBDA sk :
        IF sk.exc # "none" THEN [o |-> o, ss |-> ss, ret |-> <<>>, exc |-> sk.exc]
        ELSE Bind(PyRead(SelfStream(sk.o),
                         IF size < 0 \/ size > ss.length - ss.seek_position
                         THEN ss.length - ss.seek_position ELSE size), LAMBDA rd :
               IF rd.exc # "none" THEN [o |-> sk.o, ss |-> ss, ret |-> <<>>, exc |-> rd.exc]
               ELSE [o |-> SetSelfStream(sk.o, rd.s),
                     ss |-> [ss EXCEPT !.seek_position = @ + Len(rd.ret)],
                     ret |-> rd.ret, exc |-> "none"]))

(***************************************************************************)
(* rsrcfork/compress/common.py: the compressed resource header.            *)
(***************************************************************************)
COMPRESSED_SIGNATURE == <<168, 159, 101, 114>>

COMPRESSED_TYPE_8 == 2049

COMPRESSED_TYPE_9 == 2305

STRUCT_COMPRESSED_HEADER_size == 18

NoInfo ==
    [header_length |-> 0, compression_type |-> 0, decompressed_length |-> 0,
     dcmp_id |-> 0, variant |-> "none", working_buffer_fractional_size |-> 0,
     expansion_buffer_size |-> 0, parameters |-> <<>>]

\* CompressedType8HeaderInfo.__init__
CompressedType8HeaderInfo(header_length, compression_type, decompressed_length, dcmp_id, working_buffer_fractional_size, expansion_buffer_size) ==
    [header_length |-> header_length, compression_type |-> compression_type,
     decompressed_length |-> decompressed_length, dcmp_id |-> dcmp_id,
     variant |-> "Type8",
     working_buffer_fractional_size |-> working_buffer_fractional_size,
     expansion_buffer_size |-> expansion_buffer_size, parameters |-> <<>>]

\* CompressedType9HeaderInfo.__init__
CompressedType9HeaderInfo(header_length, compression_type, decompressed_length, dcmp_id, parameters) ==
    [header_length |-> header_length, compression_type |-> compression_type,
     decompressed_length |-> decompressed_length, dcmp_id |-> dcmp_id,
     variant |-> "Type9", working_buffer_fractional_size |-> 0,
     expansion_buffer_size |-> 0, parameters |-> parameters]

\* A faulty parse_stream: a header length of 0 is refused
parse_header_strict(hdr) ==
    LET header_length == U16(hdr, 5)
        compression_type == U16(hdr, 7)
        decompressed_length == U32(hdr, 9)
    IN IF Len(hdr) # STRUCT_COMPRESSED_HEADER_size
            \/ SubSeq(hdr, 1, 4) # COMPRESSED_SIGNATURE
            \/ header_length # 18
            \/ compression_type \notin {COMPRESSED_TYPE_8, COMPRESSED_TYPE_9}
            \/ (compression_type = COMPRESSED_TYPE_8 /\ U16(hdr, 17) # 0)
       THEN [ret |-> NoInfo, exc |-> "DecompressError"]
       ELSE IF compression_type = COMPRESSED_TYPE_8
       THEN [ret |-> CompressedType8HeaderInfo(header_length, compression_type,
                         decompressed_length, I16(hdr, 15), hdr[13], hdr[14]),
             exc |-> "none"]
       ELSE [ret |-> CompressedType9HeaderInfo(header_length, compression_type,
                         decompressed_length, I16(hdr, 13), SubSeq(hdr, 15, 18)),
             exc |-> "none"]

\* CompressedHeaderInfo.parse_stream, after stream.read(STRUCT_COMPRESSED_HEADER.size)
\* has returned the bytes hdr
parse_header(hdr) ==
    LET header_length == U16(hdr, 5)
        compression_type == U16(hdr, 7)
        decompressed_length == U32(hdr, 9)
    IN IF Len(hdr) # STRUCT_COMPRESSED_HEADER_size
       THEN [ret |-> NoInfo, exc |-> "DecompressError"]
       ELSE IF SubSeq(hdr, 1, 4) # COMPRESSED_SIGNATURE
       THEN [ret |-> NoInfo, exc |-> "DecompressError"]
       ELSE IF header_length \notin {0, 18}
       THEN [ret |-> NoInfo, exc |-> "DecompressError"]
       ELSE IF compression_type = COMPRESSED_TYPE_8
       THEN IF U16(hdr, 17) # 0
            THEN [ret |-> NoInfo, exc |-> "DecompressError"]
            ELSE [ret |-> CompressedType8HeaderInfo(header_length, compression_type,
                              decompressed_length, I16(hdr, 15), hdr[13], hdr[14]),
                  exc |-> "none"]
       ELSE IF compression_type = COMPRESSED_TYPE_9
       THEN [ret |-> CompressedType9HeaderInfo(header_length, compression_type,
                         decompressed_length, I16(hdr, 13), SubSeq(hdr, 15, 18)),
             exc |-> "none"]
       ELSE [ret |-> NoInfo, exc |-> "DecompressError"]

\* CompressedHeaderInfo.parse_stream on the SubStream ss of o
parse_stream(o, ss) ==
    Bind(SubStream_read(o, ss, STRUCT_COMPRESSED_HEADER_size), LAMBDA rd :
        IF rd.exc # "none" THEN [o |-> rd.o, ss |-> rd.ss, ret |-> NoInfo, exc |-> rd.exc]
        ELSE Bind(parse_header(rd.ret), LAMBDA p :
               [o |-> rd.o, ss |-> rd.ss, ret |-> p.ret, exc |-> p.exc]))

(***************************************************************************)
(* The codecs read a stream c = [data, pos, reads, asked]: the bytes of    *)
(* the stream, the offset of the next byte, the number of read calls made  *)
(* and the number of bytes they asked for.                                 *)
(* A codec returns d = [c, prev_literals, chunks, out, exc]: the stream as  *)
(* it left it, its list of stored literals, the chunks it yielded, one by  *)
(* one and joined, and the exception that ended it ("none" when the        *)
(* generator was exhausted).                                               *)
(***************************************************************************)
\* stream.read(n)
c_read(c, n) ==
    LET got == Slice(c.data, c.pos, c.pos + n)
    IN [c |-> [c EXCEPT !.pos = @ + Len(got), !.reads = @ + 1, !.asked = @ + n],
        ret |-> got, exc |-> "none"]

\* common.read_exact
common_read_exact(c, byte_count) ==
    Once(c_read(c, byte_count), LAMBDA r :
        IF Len(r.ret) # byte_count THEN [r EXCEPT !.exc = "DecompressError"] ELSE r)

\* int.from_bytes(b, "big", signed=True)
from_bytes_signed(b) ==
    IF Len(b) = 1 THEN (IF b[1] >= 128 THEN b[1] - 256 ELSE b[1])
    ELSE IF Len(b) = 2 THEN I16(b, 1)
    ELSE (IF b[1] >= 128 THEN b[1] - 256 ELSE b[1]) * 16777216
         + b[2] * 65536 + b[3] * 256 + b[4]

\* A faulty read_variable_length_integer: 0x80 is taken off the first byte
\* of a two-byte integer, not 0xc0
read_variable_length_integer_0x80(c) ==
    Once(common_read_exact(c, 1), LAMBDA head :
        IF head.exc # "none" THEN [c |-> head.c, ret |-> 0, exc |-> head.exc]
        ELSE IF head.ret[1] = 255
        THEN Once(common_read_exact(head.c, 4), LAMBDA four :
               IF four.exc # "none" THEN [c |-> four.c, ret |-> 0, exc |-> four.exc]
               ELSE [c |-> four.c, ret |-> from_bytes_signed(four.ret), exc |-> "none"])
        ELSE IF head.ret[1] >= 128
        THEN Once(common_read_exact(head.c, 1), LAMBDA one :
               IF one.exc # "none" THEN [c |-> one.c, ret |-> 0, exc |-> one.exc]
               ELSE [c |-> one.c,
                     ret |-> from_bytes_signed(<<(head.ret[1] + 128) % 256, one.ret[1]>>),
                     exc |-> "none"])
        ELSE [c |-> head.c, ret |-> from_bytes_signed(head.ret), exc |-> "none"])

\* common.read_variable_length_integer
read_variable_length_integer(c) ==
    Once(common_read_exact(c, 1), LAMBDA head :
        IF head.exc # "none" THEN [c |-> head.c, ret |-> 0, exc |-> head.exc]
        ELSE IF head.ret[1] = 255
        THEN Once(common_read_exact(head.c, 4), LAMBDA four :
               IF four.exc # "none" THEN [c |-> four.c, ret |-> 0, exc |-> four.exc]
               ELSE [c |-> four.c, ret |-> from_bytes_signed(four.ret), exc |-> "none"])
        ELSE IF head.ret[1] >= 128
        THEN Once(common_read_exact(head.c, 1), LAMBDA one :
               IF one.exc # "none" THEN [c |-> one.c, ret |-> 0, exc |-> one.exc]
               ELSE [c |-> one.c,
                     ret |-> from_bytes_signed(<<(head.ret[1] + 64) % 256, one.ret[1]>>),
                     exc |-> "none"])
        ELSE [c |-> head.c, ret |-> from_bytes_signed(head.ret), exc |-> "none"])

(***************************************************************************)
(* rsrcfork/compress/dcmp1.py                                              *)
(***************************************************************************)
DCMP1_TABLE_DATA ==
    <<0, 0, 0, 1, 0, 2, 0, 3, 46, 1, 62, 1, 1, 1, 30, 1,
      255, 255, 14, 1, 49, 0, 17, 18, 1, 7, 51, 50, 18, 57, 237, 16,
      1, 39, 35, 34, 1, 55, 7, 6, 1, 23, 1, 35, 0, 255, 0, 47,
      7, 14, 253, 60, 1, 53, 1, 21, 1, 2, 0, 7, 0, 62, 5, 213,
      2, 1, 6, 7, 7, 8, 48, 1, 1, 51, 0, 16, 23, 22, 55, 62,
      54, 55>>

\* TABLE[table_index], table_index counted from 0
DCMP1_TABLE(table_index) == SubSeq(DCMP1_TABLE_DATA, 2 * table_index + 1, 2 * table_index + 2)

Repeat(b, count) == [i \in 1..(Len(b) * count) |-> b[((i - 1) % Len(b)) + 1]]

Dcmp_start(c) ==
    [c |-> c, prev_literals |-> <<>>, chunks |-> <<>>, out |-> <<>>, exc |-> "none"]

Dcmp_fail(d, c, exc) == [d EXCEPT !.c = c, !.exc = exc]

Dcmp_yield(d, c, chunk) ==
    [d EXCEPT !.c = c, !.chunks = Append(@, chunk), !.out = @ \o chunk]

Dcmp_store_yield(d, c, chunk, do_store) ==
    [d EXCEPT !.c = c, !.chunks = Append(@, chunk), !.out = @ \o chunk,
              !.prev_literals = IF do_store THEN Append(@, chunk) ELSE @]

\* A faulty backreference: the stored literals are counted from 1
Dcmp_backref_from_one(d, c, table_index) ==
    IF table_index > Len(d.prev_literals) \/ table_index = 0
    THEN Dcmp_fail(d, c, "IndexError")
    ELSE Dcmp_yield(d, c, d.prev_literals[table_index])

\* yield prev_literals[table_index]
Dcmp_backref(d, c, table_index) ==
    IF table_index >= Len(d.prev_literals)
    THEN Dcmp_fail(d, c, "IndexError")
    ELSE Dcmp_yield(d, c, d.prev_literals[table_index + 1])

\* A faulty read of the tag byte: the end of the data is taken for the end
\* marker
Dcmp_read_tag_or_end(c) ==
    Once(c_read(c, 1), LAMBDA r : IF r.ret = <<>> THEN [r EXCEPT !.ret = <<255>>] ELSE r)

\* (byte,) = common.read_exact(stream, 1) at the head of the while loop
Dcmp_read_tag(c) == common_read_exact(c, 1)

\* A faulty end marker: what follows it is not looked at
Dcmp_end_marker_unchecked(d, c) == [d |-> [d EXCEPT !.c = c], done |-> TRUE]

\* the end marker 0xff, after the tag byte: [d, done], done set by the break
Dcmp_end_marker(d, c) ==
    Once(c_read(c, 1), LAMBDA extra :
        IF extra.ret # <<>>
        THEN [d |-> Dcmp_fail(d, extra.c, "DecompressError"), done |-> FALSE]
        ELSE [d |-> [d EXCEPT !.c = extra.c], done |-> TRUE])

\* dcmp1.decompress_stream_inner: the extended code 0x02, after the kind byte
dcmp1_repeat(d, c) ==
    Once(read_variable_length_integer(c), LAMBDA to_repeat_int :
        IF to_repeat_int.exc # "none" THEN Dcmp_fail(d, to_repeat_int.c, to_repeat_int.exc)
        ELSE IF to_repeat_int.ret \notin 0..255
        THEN Dcmp_fail(d, to_repeat_int.c, "DecompressError")
        ELSE Once(read_variable_length_integer(to_repeat_int.c), LAMBDA cnt :
               IF cnt.exc # "none" THEN Dcmp_fail(d, cnt.c, cnt.exc)
               ELSE IF cnt.ret + 1 <= 0 THEN Dcmp_fail(d, cnt.c, "DecompressError")
               ELSE Dcmp_yield(d, cnt.c, Repeat(<<to_repeat_int.ret>>, cnt.ret + 1))))

\* A faulty pass of the while loop: the length of a literal with a 1-byte
\* header is the low nibble of the tag, without the 1 added
dcmp1_step_low_nibble(d) ==
    LET cont(dd) == [d |-> dd, done |-> FALSE]
    IN Once(Dcmp_read_tag(d.c), LAMBDA tag :
        IF tag.exc # "none" THEN cont(Dcmp_fail(d, tag.c, tag.exc))
        ELSE Once(tag.ret[1], LAMBDA byte :
        IF byte \in 0..31
        THEN Once(common_read_exact(tag.c, byte % 16), LAMBDA lit :
               IF lit.exc # "none" THEN cont(Dcmp_fail(d, lit.c, lit.exc))
               ELSE cont(Dcmp_store_yield(d, lit.c, lit.ret, byte >= 16)))
        ELSE IF byte \in 32..207
        THEN cont(Dcmp_backref(d, tag.c, byte - 32))
        ELSE IF byte \in {208, 209}
        THEN Once(common_read_exact(tag.c, 1), LAMBDA nxt :
               IF nxt.exc # "none" THEN cont(Dcmp_fail(d, nxt.c, nxt.exc))
               ELSE Once(common_read_exact(nxt.c, nxt.ret[1]), LAMBDA lit :
                      IF lit.exc # "none" THEN cont(Dcmp_fail(d, lit.c, lit.exc))
                      ELSE cont(Dcmp_store_yield(d, lit.c, lit.ret, byte = 209))))
        ELSE IF byte = 210
        THEN Once(common_read_exact(tag.c, 1), LAMBDA nxt :
               IF nxt.exc # "none" THEN cont(Dcmp_fail(d, nxt.c, nxt.exc))
               ELSE cont(Dcmp_backref(d, nxt.c, nxt.ret[1] + 176)))
        ELSE IF byte \in 213..253
        THEN cont(Dcmp_yield(d, tag.c, DCMP1_TABLE(byte - 213)))
        ELSE IF byte = 254
        THEN Once(common_read_exact(tag.c, 1), LAMBDA nxt :
               IF nxt.exc # "none" THEN cont(Dcmp_fail(d, nxt.c, nxt.exc))
               ELSE IF nxt.ret[1] = 2 THEN cont(dcmp1_repeat(d, nxt.c))
               ELSE cont(Dcmp_fail(d, nxt.c, "DecompressError")))
        ELSE IF byte = 255 THEN Dcmp_end_marker(d, tag.c)
        ELSE cont(Dcmp_fail(d, tag.c, "DecompressError"))))

\* dcmp1.decompress_stream_inner: one pass of the while loop, from reading
\* the tag byte on; [d, done] with done set by the end marker's break
dcmp1_step(d) ==
    LET cont(dd) == [d |-> dd, done |-> FALSE]
    IN Once(Dcmp_read_tag(d.c), LAMBDA tag :
        IF tag.exc # "none" THEN cont(Dcmp_fail(d, tag.c, tag.exc))
        ELSE Once(tag.ret[1], LAMBDA byte :
        IF byte \in 0..31
        THEN Once(common_read_exact(tag.c, (byte % 16) + 1), LAMBDA lit :
               IF lit.exc # "none" THEN cont(Dcmp_fail(d, lit.c, lit.exc))
               ELSE cont(Dcmp_store_yield(d, lit.c, lit.ret, byte >= 16)))
        ELSE IF byte \in 32..207
        THEN cont(Dcmp_backref(d, tag.c, byte - 32))
        ELSE IF byte \in {208, 209}
        THEN Once(common_read_exact(tag.c, 1), LAMBDA nxt :
               IF nxt.exc # "none" THEN cont(Dcmp_fail(d, nxt.c, nxt.exc))
               ELSE Once(common_read_exact(nxt.c, nxt.ret[1]), LAMBDA lit :
                      IF lit.exc # "none" THEN cont(Dcmp_fail(d, lit.c, lit.exc))
                      ELSE cont(Dcmp_store_yield(d, lit.c, lit.ret, byte = 209))))
        ELSE IF byte = 210
        THEN Once(common_read_exact(tag.c, 1), LAMBDA nxt :
               IF nxt.exc # "none" THEN cont(Dcmp_fail(d, nxt.c, nxt.exc))
               ELSE cont(Dcmp_backref(d, nxt.c, nxt.ret[1] + 176)))
        ELSE IF byte \in 213..253
        THEN cont(Dcmp_yield(d, tag.c, DCMP1_TABLE(byte - 213)))
        ELSE IF byte = 254
        THEN Once(common_read_exact(tag.c, 1), LAMBDA nxt :
               IF nxt.exc # "none" THEN cont(Dcmp_fail(d, nxt.c, nxt.exc))
               ELSE IF nxt.ret[1] = 2 THEN cont(dcmp1_repeat(d, nxt.c))
               ELSE cont(Dcmp_fail(d, nxt.c, "DecompressError")))
        ELSE IF byte = 255 THEN Dcmp_end_marker(d, tag.c)
        ELSE cont(Dcmp_fail(d, tag.c, "DecompressError"))))

RECURSIVE dcmp1_loop(_)
dcmp1_loop(d) ==
    Once(dcmp1_step(d), LAMBDA r :
        IF r.d.exc # "none" \/ r.done THEN r.d ELSE dcmp1_loop(r.d))

\* dcmp1.decompress_stream_inner
dcmp1_decompress_stream_inner(header_info, c) ==
    IF header_info.variant # "Type8"
    THEN Dcmp_fail(Dcmp_start(c), c, "DecompressError")
    ELSE dcmp1_loop(Dcmp_start(c))

\* dcmp1.decompress_stream
dcmp1_decompress_stream(header_info, c) ==
    dcmp1_decompress_stream_inner(header_info, c)

(***************************************************************************)
(* rsrcfork/compress/dcmp0.py                                              *)
(***************************************************************************)
DCMP0_TABLE_DATA ==
    <<0, 0, 78, 186, 0, 8, 78, 117, 0, 12, 78, 173, 32, 83, 47, 11, 97, 0,
       0, 16, 112, 0, 47, 0, 72, 110, 32, 80, 32, 110, 47, 46, 255, 252, 72, 231,
       63, 60, 0, 4, 255, 248, 47, 12, 32, 6, 78, 237, 78, 86, 32, 104, 78, 94,
       0, 1, 88, 143, 79, 239, 0, 2, 0, 24, 96, 0, 255, 255, 80, 143, 78, 144,
       0, 6, 38, 110, 0, 20, 255, 244, 76, 238, 0, 10, 0, 14, 65, 238, 76, 223,
       72, 192, 255, 240, 45, 64, 0, 18, 48, 46, 112, 1, 47, 40, 32, 84, 103, 0,
       0, 32, 0, 28, 32, 95, 24, 0, 38, 111, 72, 120, 0, 22, 65, 250, 48, 60,
       40, 64, 114, 0, 40, 110, 32, 12, 102, 0, 32, 107, 47, 7, 85, 143, 0, 40,
       255, 254, 255, 236, 34, 216, 32, 11, 0, 15, 89, 143, 47, 60, 255, 0, 1, 24,
       129, 225, 74, 0, 78, 176, 255, 232, 72, 199, 0, 3, 0, 34, 0, 7, 0, 26,
       103, 6, 103, 8, 78, 249, 0, 36, 32, 120, 8, 0, 102, 4, 0, 42, 78, 208,
       48, 40, 38, 95, 103, 4, 0, 48, 67, 238, 63, 0, 32, 31, 0, 30, 255, 246,
       32, 46, 66, 167, 32, 7, 255, 250, 96, 2, 61, 64, 12, 64, 102, 6, 0, 38,
       45, 72, 47, 1, 112, 255, 96, 4, 24, 128, 74, 64, 0, 64, 0, 44, 47, 8,
       0, 17, 255, 228, 33, 64, 38, 64, 255, 242, 66, 110, 78, 185, 61, 124, 0, 56,
       0, 13, 96, 6, 66, 46, 32, 60, 103, 12, 45, 104, 102, 8, 74, 46, 74, 174,
       0, 46, 72, 64, 34, 95, 34, 0, 103, 10, 48, 7, 66, 103, 0, 50, 32, 40,
       0, 9, 72, 122, 2, 0, 47, 43, 0, 5, 34, 110, 102, 2, 229, 128, 103, 14,
       102, 10, 0, 80, 62, 0, 102, 12, 46, 0, 255, 238, 32, 109, 32, 64, 255, 224,
       83, 64, 96, 8, 4, 128, 0, 104, 11, 124, 68, 0, 65, 232, 72, 65>>

\* TABLE[table_index]
DCMP0_TABLE(table_index) ==
    SubSeq(DCMP0_TABLE_DATA, 2 * table_index + 1, 2 * table_index + 2)

\* v.to_bytes(4, "big", signed=True) for a v of 32 bits
to_bytes_signed32(v) == BE16((v \div 65536) % 65536) \o BE16(v % 65536)

\* (current_int + diff) & 0xffffffff, current_int given and returned as its 4 bytes
add32(cur, diff) ==
    LET lo == U16(cur, 3) + (diff % 65536)
        hi == U16(cur, 1) + (diff \div 65536) + (lo \div 65536)
    IN BE16(hi % 65536) \o BE16(lo % 65536)

\* the for loop of the extended code 0x00: n entries are still to be made;
\* diff is reduced modulo 2^16 before it is added, which leaves
\* (current_int + diff) & 0xffff as it is and keeps the sum in 32 bits
RECURSIVE dcmp0_jump_entries(_, _, _, _)
dcmp0_jump_entries(d, current_int, entry_tail, n) ==
    IF n <= 0 THEN d
    ELSE Once(read_variable_length_integer(d.c), LAMBDA diff :
           IF diff.exc # "none" THEN Dcmp_fail(d, diff.c, diff.exc)
           ELSE Once((current_int + (diff.ret % 65536) - 6) % 65536, LAMBDA nxt :
                  dcmp0_jump_entries(Dcmp_yield(d, diff.c, BE16(nxt) \o entry_tail),
                                     nxt, entry_tail, n - 1)))

\* the extended code 0x00: segment loader jump table entries
dcmp0_jump_table(d, c) ==
    Once(read_variable_length_integer(c), LAMBDA segment_number_int :
      IF segment_number_int.exc # "none"
      THEN Dcmp_fail(d, segment_number_int.c, segment_number_int.exc)
      ELSE IF segment_number_int.ret \notin 0..65535
      THEN Dcmp_fail(d, segment_number_int.c, "OverflowError")
      ELSE Once(<<63, 60>> \o BE16(segment_number_int.ret) \o <<169, 240>>, LAMBDA entry_tail :
        Once(Dcmp_yield(d, segment_number_int.c, entry_tail), LAMBDA d1 :
          Once(read_variable_length_integer(d1.c), LAMBDA count :
            IF count.exc # "none" THEN Dcmp_fail(d1, count.c, count.exc)
            ELSE IF count.ret <= 0 THEN Dcmp_fail(d1, count.c, "DecompressError")
            ELSE Once(read_variable_length_integer(count.c), LAMBDA current_int :
              IF current_int.exc # "none" THEN Dcmp_fail(d1, current_int.c, current_int.exc)
              ELSE IF current_int.ret \notin 0..65535
              THEN Dcmp_fail(d1, current_int.c, "OverflowError")
              ELSE dcmp0_jump_entries(
                       Dcmp_yield(d1, current_int.c, BE16(current_int.ret) \o entry_tail),
                       current_int.ret, entry_tail, count.ret - 1))))))

\* the extended codes 0x02 and 0x03: repeat 1 or 2 bytes
dcmp0_repeat(d, c, byte_count) ==
    Once(read_variable_length_integer(c), LAMBDA to_repeat_int :
        IF to_repeat_int.exc # "none" THEN Dcmp_fail(d, to_repeat_int.c, to_repeat_int.exc)
        ELSE IF to_repeat_int.ret \notin 0..(IF byte_count = 1 THEN 255 ELSE 65535)
        THEN Dcmp_fail(d, to_repeat_int.c, "DecompressError")
        ELSE Once(read_variable_length_integer(to_repeat_int.c), LAMBDA cnt :
               IF cnt.exc # "none" THEN Dcmp_fail(d, cnt.c, cnt.exc)
               ELSE IF cnt.ret + 1 <= 0 THEN Dcmp_fail(d, cnt.c, "DecompressError")
               ELSE Dcmp_yield(d, cnt.c,
                        Repeat(IF byte_count = 1 THEN <<to_repeat_int.ret>>
                               ELSE BE16(to_repeat_int.ret), cnt.ret + 1))))

\* the for loop of the extended code 0x04 with the difference read as an
\* unsigned byte
RECURSIVE dcmp0_diff16_unsigned(_, _, _)
dcmp0_diff16_unsigned(d, current_int, n) ==
    IF n <= 0 THEN d
    ELSE Once(common_read_exact(d.c, 1), LAMBDA diff :
           IF diff.exc # "none" THEN Dcmp_fail(d, diff.c, diff.exc)
           ELSE Once((current_int + diff.ret[1]) % 65536, LAMBDA nxt :
                  dcmp0_diff16_unsigned(Dcmp_yield(d, diff.c, BE16(nxt)), nxt, n - 1)))

\* the for loop of the extended code 0x04: n differences are still to be read
RECURSIVE dcmp0_diff16(_, _, _)
dcmp0_diff16(d, current_int, n) ==
    IF n <= 0 THEN d
    ELSE Once(common_read_exact(d.c, 1), LAMBDA diff :
           IF diff.exc # "none" THEN Dcmp_fail(d, diff.c, diff.exc)
           ELSE Once((current_int + from_bytes_signed(diff.ret)) % 65536, LAMBDA nxt :
                  dcmp0_diff16(Dcmp_yield(d, diff.c, BE16(nxt)), nxt, n - 1)))

\* the for loop of the extended code 0x06; current is current_int as its 4 bytes
RECURSIVE dcmp0_diff32(_, _, _)
dcmp0_diff32(d, current, n) ==
    IF n <= 0 THEN d
    ELSE Once(read_variable_length_integer(d.c), LAMBDA diff :
           IF diff.exc # "none" THEN Dcmp_fail(d, diff.c, diff.exc)
           ELSE Once(add32(current, diff.ret), LAMBDA nxt :
                  dcmp0_diff32(Dcmp_yield(d, diff.c, nxt), nxt, n - 1)))

\* the extended codes 0x04 and 0x06: difference-encoded integers
dcmp0_differences(d, c, kind) ==
    Once(read_variable_length_integer(c), LAMBDA initial_int :
        IF initial_int.exc # "none" THEN Dcmp_fail(d, initial_int.c, initial_int.exc)
        ELSE IF kind = 4 /\ initial_int.ret \notin -32768..32767
        THEN Dcmp_fail(d, initial_int.c, "DecompressError")
        ELSE Once(Dcmp_yield(d, initial_int.c,
                             IF kind = 4 THEN BE16(initial_int.ret % 65536)
                             ELSE to_bytes_signed32(initial_int.ret)), LAMBDA d1 :
               Once(read_variable_length_integer(d1.c), LAMBDA count :
                 IF count.exc # "none" THEN Dcmp_fail(d1, count.c, count.exc)
                 ELSE IF count.ret < 0
                 THEN Dcmp_fail(d1, count.c,
                                IF kind = 4 THEN "DecompressError" ELSE "AssertionError")
                 ELSE IF kind = 4
                 THEN dcmp0_diff16([d1 EXCEPT !.c = count.c],
                                   initial_int.ret % 65536, count.ret)
                 ELSE dcmp0_diff32([d1 EXCEPT !.c = count.c],
                                   to_bytes_signed32(initial_int.ret), count.ret))))

\* dcmp0.decompress_stream_inner: one pass of the while loop, from reading
\* the tag byte on; [d, done] with done set by the end marker's break
dcmp0_step(d) ==
    LET cont(dd) == [d |-> dd, done |-> FALSE]
    IN Once(Dcmp_read_tag(d.c), LAMBDA tag :
        IF tag.exc # "none" THEN cont(Dcmp_fail(d, tag.c, tag.exc))
        ELSE Once(tag.ret[1], LAMBDA byte :
        IF byte \in {0, 16}
        THEN Once(common_read_exact(tag.c, 1), LAMBDA count_div2 :
               IF count_div2.exc # "none" THEN cont(Dcmp_fail(d, count_div2.c, count_div2.exc))
               ELSE Once(common_read_exact(count_div2.c, 2 * count_div2.ret[1]), LAMBDA lit :
                      IF lit.exc # "none" THEN cont(Dcmp_fail(d, lit.c, lit.exc))
                      ELSE cont(Dcmp_store_yield(d, lit.c, lit.ret, byte >= 16))))
        ELSE IF byte \in 0..31
        THEN Once(common_read_exact(tag.c, 2 * (byte % 16)), LAMBDA lit :
               IF lit.exc # "none" THEN cont(Dcmp_fail(d, lit.c, lit.exc))
               ELSE cont(Dcmp_store_yield(d, lit.c, lit.ret, byte >= 16)))
        ELSE IF byte \in {32, 33}
        THEN Once(common_read_exact(tag.c, 1), LAMBDA next_byte :
               IF next_byte.exc # "none" THEN cont(Dcmp_fail(d, next_byte.c, next_byte.exc))
               ELSE cont(Dcmp_backref(d, next_byte.c,
                                      40 + (byte - 32) * 256 + next_byte.ret[1])))
        ELSE IF byte = 34
        THEN Once(common_read_exact(tag.c, 2), LAMBDA two :
               IF two.exc # "none" THEN cont(Dcmp_fail(d, two.c, two.exc))
               ELSE cont(Dcmp_backref(d, two.c, 40 + U16(two.ret, 1))))
        ELSE IF byte \in 35..74
        THEN cont(Dcmp_backref(d, tag.c, byte - 35))
        ELSE IF byte \in 75..253
        THEN cont(Dcmp_yield(d, tag.c, DCMP0_TABLE(byte - 75)))
        ELSE IF byte = 254
        THEN Once(common_read_exact(tag.c, 1), LAMBDA kind :
               IF kind.exc # "none" THEN cont(Dcmp_fail(d, kind.c, kind.exc))
               ELSE IF kind.ret[1] = 0 THEN cont(dcmp0_jump_table(d, kind.c))
               ELSE IF kind.ret[1] \in {2, 3}
               THEN cont(dcmp0_repeat(d, kind.c, kind.ret[1] - 1))
               ELSE IF kind.ret[1] \in {4, 6}
               THEN cont(dcmp0_differences(d, kind.c, kind.ret[1]))
               ELSE cont(Dcmp_fail(d, kind.c, "DecompressError")))
        ELSE Dcmp_end_marker(d, tag.c)))

RECURSIVE dcmp0_loop(_)
dcmp0_loop(d) ==
    Once(dcmp0_step(d), LAMBDA r :
        IF r.d.exc # "none" \/ r.done THEN r.d ELSE dcmp0_loop(r.d))

\* dcmp0.decompress_stream_inner
dcmp0_decompress_stream_inner(header_info, c) ==
    IF header_info.variant # "Type8"
    THEN Dcmp_fail(Dcmp_start(c), c, "DecompressError")
    ELSE dcmp0_loop(Dcmp_start(c))

\* dcmp0.decompress_stream: the body of the for loop for one chunk; w is
\* [decompressed_length, chunks]: the count kept and the chunks yielded
dcmp0_pass_chunk(header_info, w, chunk) ==
    IF header_info.decompressed_length % 2 # 0
        /\ w.decompressed_length + Len(chunk) = header_info.decompressed_length + 1
    THEN [decompressed_length |-> w.decompressed_length + Len(chunk) - 1,
          chunks |-> Append(w.chunks, SubSeq(chunk, 1, Len(chunk) - 1))]
    ELSE [decompressed_length |-> w.decompressed_length + Len(chunk),
          chunks |-> Append(w.chunks, chunk)]

\* dcmp0.decompress_stream: the for loop, from the state w on, over the
\* chunks that decompress_stream_inner yields next
RECURSIVE dcmp0_pass_chunks(_, _, _)
dcmp0_pass_chunks(header_info, w, chunks) ==
    IF chunks = <<>> THEN w
    ELSE dcmp0_pass_chunks(header_info, dcmp0_pass_chunk(header_info, w, Head(chunks)),
                           Tail(chunks))

\* dcmp0.decompress_stream
dcmp0_decompress_stream(header_info, c) ==
    Once(dcmp0_decompress_stream_inner(header_info, c), LAMBDA d :
        Once(dcmp0_pass_chunks(header_info, [decompressed_length |-> 0, chunks |-> <<>>],
                               d.chunks).chunks, LAMBDA chunks :
            [d EXCEPT !.chunks = chunks, !.out = Flatten(chunks)]))

(***************************************************************************)
(* rsrcfork/_io_utils.py: the wrapper make_peekable puts around a stream   *)
(* without a peek method.  A wrapped stream is [c, readahead].             *)
(***************************************************************************)
make_peekable(c) == [c |-> c, readahead |-> <<>>]

\* io.DEFAULT_BUFFER_SIZE
DEFAULT_BUFFER_SIZE == 8192

\* stream.read() and stream.read(size) of the wrapped stream
c_read_all(c) == c_read(c, Len(c.data) - Min(c.pos, Len(c.data)))

c_read_size(c, size) == IF size < 0 THEN c_read_all(c) ELSE c_read(c, size)

\* A faulty peek: what was read to be shown is not kept
PeekableIO_peek_unbuffered(p, size) ==
    IF p.readahead # <<>> THEN [p |-> p, ret |-> p.readahead]
    ELSE Once(c_read(p.c, IF size < 0 THEN DEFAULT_BUFFER_SIZE ELSE size), LAMBDA r :
           [p |-> [c |-> r.c, readahead |-> <<>>], ret |-> r.ret])

\* _PeekableIOWrapper.read; a size of None is a negative size
PeekableIO_read(p, size) ==
    IF size < 0
    THEN Once(c_read_all(p.c), LAMBDA r :
           [p |-> [c |-> r.c, readahead |-> <<>>], ret |-> p.readahead \o r.ret])
    ELSE IF size <= Len(p.readahead)
    THEN [p |-> [p EXCEPT !.readahead = SubSeq(@, size + 1, Len(@))],
          ret |-> SubSeq(p.readahead, 1, size)]
    ELSE Once(c_read(p.c, size - Len(p.readahead)), LAMBDA r :
           [p |-> [c |-> r.c, readahead |-> <<>>], ret |-> p.readahead \o r.ret])

\* _PeekableIOWrapper.peek
PeekableIO_peek(p, size) ==
    IF p.readahead # <<>> THEN [p |-> p, ret |-> p.readahead]
    ELSE Once(c_read(p.c, IF size < 0 THEN DEFAULT_BUFFER_SIZE ELSE size), LAMBDA r :
           [p |-> [c |-> r.c, readahead |-> r.ret], ret |-> r.ret])

(***************************************************************************)
(* rsrcfork/compress/dcmp2.py.  The state of a run is the codec state      *)
(* with the wrapped stream in the place of the stream.                     *)
(***************************************************************************)
DCMP2_DEFAULT_TABLE_DATA ==
    <<0, 0, 0, 8, 78, 186, 32, 110, 78, 117, 0, 12, 0, 4, 112, 0, 0, 16,
      0, 2, 72, 110, 255, 252, 96, 0, 0, 1, 72, 231, 47, 46, 78, 86, 0, 6,
      78, 94, 47, 0, 97, 0, 255, 248, 47, 11, 255, 255, 0, 20, 0, 10, 0, 24,
      32, 95, 0, 14, 32, 80, 63, 60, 255, 244, 76, 238, 48, 46, 103, 0, 76, 223,
      38, 110, 0, 18, 0, 28, 66, 103, 255, 240, 48, 60, 47, 12, 0, 3, 78, 208,
      0, 32, 112, 1, 0, 22, 45, 64, 72, 192, 32, 120, 114, 0, 88, 143, 102, 0,
      79, 239, 66, 167, 103, 6, 255, 250, 85, 143, 40, 110, 63, 0, 255, 254, 47, 60,
      103, 4, 89, 143, 32, 107, 0, 36, 32, 31, 65, 250, 129, 225, 102, 4, 103, 8,
      0, 26, 78, 185, 80, 143, 32, 46, 0, 7, 78, 176, 255, 242, 61, 64, 0, 30,
      32, 104, 102, 6, 255, 246, 78, 249, 8, 0, 12, 64, 61, 124, 255, 236, 0, 5,
      32, 60, 255, 232, 222, 252, 74, 46, 0, 48, 0, 40, 47, 8, 32, 11, 96, 2,
      66, 110, 45, 72, 32, 83, 32, 64, 24, 0, 96, 4, 65, 238, 47, 40, 47, 1,
      103, 10, 72, 64, 32, 7, 102, 8, 1, 24, 47, 7, 48, 40, 63, 46, 48, 43,
      34, 110, 47, 43, 0, 44, 103, 12, 34, 95, 96, 6, 0, 255, 48, 7, 255, 238,
      83, 64, 0, 64, 255, 228, 74, 64, 102, 10, 0, 15, 78, 173, 112, 255, 34, 216,
      72, 107, 0, 34, 32, 75, 103, 14, 74, 174, 78, 144, 255, 224, 255, 192, 0, 42,
      39, 64, 103, 2, 81, 200, 2, 182, 72, 122, 34, 120, 176, 110, 255, 230, 0, 9,
      50, 46, 62, 0, 72, 65, 255, 234, 67, 238, 78, 113, 116, 0, 47, 44, 32, 108,
      0, 60, 0, 38, 0, 80, 24, 128, 48, 31, 34, 0, 102, 12, 255, 218, 0, 56,
      102, 2, 48, 44, 32, 12, 45, 110, 66, 64, 255, 226, 169, 240, 255, 0, 55, 124,
      229, 128, 255, 220, 72, 104, 89, 79, 0, 52, 62, 31, 96, 8, 47, 6, 255, 222,
      96, 10, 112, 2, 0, 50, 255, 204, 0, 128, 34, 81, 16, 31, 49, 124, 160, 41,
      255, 216, 82, 64, 1, 0, 103, 16, 160, 35, 255, 206, 255, 212, 32, 6, 72, 120,
      0, 46, 80, 79, 67, 250, 103, 18, 118, 0, 65, 232, 74, 110, 32, 217, 0, 90,
      127, 255, 81, 202, 0, 92, 46, 0, 2, 64, 72, 199, 103, 20, 12, 128, 46, 159,
      255, 214, 128, 0, 16, 0, 72, 66, 74, 107, 255, 210, 0, 72, 74, 71, 78, 209,
      32, 111, 0, 65, 96, 12, 42, 120, 66, 46, 50, 0, 101, 116, 103, 22, 0, 68,
      72, 109, 32, 8, 72, 108, 11, 124, 38, 64, 4, 0, 0, 104, 32, 109, 0, 13,
      42, 64, 0, 11, 0, 62, 2, 32>>

\* DEFAULT_TABLE, a list of 256 entries of two bytes
DCMP2_DEFAULT_TABLE ==
    [i \in 1..(Len(DCMP2_DEFAULT_TABLE_DATA) \div 2) |->
        SubSeq(DCMP2_DEFAULT_TABLE_DATA, 2 * i - 1, 2 * i)]

\* ParameterFlags: the bits of flags_raw that have a meaning
ParameterFlags_TAGGED == 2

ParameterFlags_CUSTOM_TABLE == 1

\* yield table[table_index]
dcmp2_table_ref(d, p, table, table_index) ==
    IF table_index >= Len(table) THEN Dcmp_fail(d, p, "IndexError")
    ELSE Dcmp_yield(d, p, table[table_index + 1])

\* the head of both loops: [d, ret, done]; ret is the byte read, done is
\* set when the loop was left
dcmp2_read_head(d, decompressed_length) ==
    Once(PeekableIO_read(d.c, 1), LAMBDA head :
        IF head.ret = <<>> THEN [d |-> [d EXCEPT !.c = head.p], ret |-> <<>>, done |-> TRUE]
        ELSE Once(PeekableIO_peek(head.p, 1), LAMBDA ahead :
               IF ahead.ret = <<>> /\ decompressed_length % 2 # 0
               THEN [d |-> Dcmp_yield(d, ahead.p, head.ret), ret |-> head.ret, done |-> TRUE]
               ELSE [d |-> [d EXCEPT !.c = ahead.p], ret |-> head.ret, done |-> FALSE]))

\* dcmp2._decompress_untagged: one pass of the while loop
dcmp2_untagged_step(d, decompressed_length, table) ==
    Once(dcmp2_read_head(d, decompressed_length), LAMBDA head :
        IF head.done THEN head
        ELSE [d |-> dcmp2_table_ref(head.d, head.d.c, table, head.ret[1]),
              ret |-> head.ret, done |-> FALSE])

\* A faulty for loop over the bits of the tag: the lowest bit comes first
RECURSIVE dcmp2_tagged_bits_lowest_first(_, _, _, _)
dcmp2_tagged_bits_lowest_first(d, table, tag, k) ==
    IF k < 0 \/ d.exc # "none" THEN d
    ELSE IF (tag \div (2 ^ (7 - k))) % 2 = 1
    THEN Once(PeekableIO_read(d.c, 1), LAMBDA table_index_data :
           IF table_index_data.ret = <<>> THEN [d EXCEPT !.c = table_index_data.p]
           ELSE dcmp2_tagged_bits_lowest_first(
                    dcmp2_table_ref(d, table_index_data.p, table, table_index_data.ret[1]),
                    table, tag, k - 1))
    ELSE Once(PeekableIO_read(d.c, 2), LAMBDA literal :
           IF literal.ret = <<>> THEN [d EXCEPT !.c = literal.p]
           ELSE dcmp2_tagged_bits_lowest_first(Dcmp_yield(d, literal.p, literal.ret),
                                               table, tag, k - 1))

\* dcmp2._decompress_tagged: the for loop over the bits of the tag, bit k
\* (7 for the highest) and the ones below it still to come
RECURSIVE dcmp2_tagged_bits(_, _, _, _)
dcmp2_tagged_bits(d, table, tag, k) ==
    IF k < 0 \/ d.exc # "none" THEN d
    ELSE IF (tag \div (2 ^ k)) % 2 = 1
    THEN Once(PeekableIO_read(d.c, 1), LAMBDA table_index_data :
           IF table_index_data.ret = <<>> THEN [d EXCEPT !.c = table_index_data.p]
           ELSE dcmp2_tagged_bits(
                    dcmp2_table_ref(d, table_index_data.p, table, table_index_data.ret[1]),
                    table, tag, k - 1))
    ELSE Once(PeekableIO_read(d.c, 2), LAMBDA literal :
           IF literal.ret = <<>> THEN [d EXCEPT !.c = literal.p]
           ELSE dcmp2_tagged_bits(Dcmp_yield(d, literal.p, literal.ret), table, tag, k - 1))

\* dcmp2._decompress_tagged: one pass of the while loop
dcmp2_tagged_step(d, decompressed_length, table) ==
    Once(dcmp2_read_head(d, decompressed_length), LAMBDA head :
        IF head.done THEN head
        ELSE [d |-> dcmp2_tagged_bits(head.d, table, head.ret[1], 7),
              ret |-> head.ret, done |-> FALSE])

RECURSIVE dcmp2_loop(_, _, _, _)
dcmp2_loop(d, tagged, decompressed_length, table) ==
    Once(IF tagged THEN dcmp2_tagged_step(d, decompressed_length, table)
         ELSE dcmp2_untagged_step(d, decompressed_length, table), LAMBDA r :
        IF r.d.exc # "none" \/ r.done THEN r.d
        ELSE dcmp2_loop(r.d, tagged, decompressed_length, table))

\* dcmp2.decompress_stream: the custom table, n entries still to be read;
\* [c, ret, exc]
RECURSIVE dcmp2_read_table(_, _, _)
dcmp2_read_table(c, table, n) ==
    IF n <= 0 THEN [c |-> c, ret |-> table, exc |-> "none"]
    ELSE Once(common_read_exact(c, 2), LAMBDA entry :
           IF entry.exc # "none" THEN [c |-> entry.c, ret |-> table, exc |-> entry.exc]
           ELSE dcmp2_read_table(entry.c, Append(table, entry.ret), n - 1))

\* A faulty choice of the table: a custom table of table_count_m1 entries
dcmp2_table_count_m1(header_info, c) ==
    Once(header_info.parameters[3], LAMBDA table_count_m1 :
      Once(header_info.parameters[4], LAMBDA flags_raw :
        IF flags_raw \notin 0..3 THEN [c |-> c, ret |-> <<>>, exc |-> "DecompressError"]
        ELSE IF (flags_raw \div ParameterFlags_CUSTOM_TABLE) % 2 = 1
        THEN dcmp2_read_table(c, <<>>, table_count_m1)
        ELSE IF table_count_m1 # 0 THEN [c |-> c, ret |-> <<>>, exc |-> "DecompressError"]
        ELSE [c |-> c, ret |-> DCMP2_DEFAULT_TABLE, exc |-> "none"]))

\* dcmp2.decompress_stream: the table to use, [c, ret, exc]
dcmp2_table(header_info, c) ==
    Once(header_info.parameters[3], LAMBDA table_count_m1 :
      Once(header_info.parameters[4], LAMBDA flags_raw :
        IF flags_raw \notin 0..3 THEN [c |-> c, ret |-> <<>>, exc |-> "DecompressError"]
        ELSE IF (flags_raw \div ParameterFlags_CUSTOM_TABLE) % 2 = 1
        THEN dcmp2_read_table(c, <<>>, table_count_m1 + 1)
        ELSE IF table_count_m1 # 0 THEN [c |-> c, ret |-> <<>>, exc |-> "DecompressError"]
        ELSE [c |-> c, ret |-> DCMP2_DEFAULT_TABLE, exc |-> "none"]))

\* the codec state with the stream the wrapper was put around
dcmp2_unwrap(d) == [d EXCEPT !.c = @.c]

\* dcmp2.decompress_stream
dcmp2_decompress_stream(header_info, c) ==
    IF header_info.variant # "Type9"
    THEN Dcmp_fail(Dcmp_start(c), c, "DecompressError")
    ELSE Once(dcmp2_table(header_info, c), LAMBDA table :
           IF table.exc # "none" THEN Dcmp_fail(Dcmp_start(table.c), table.c, table.exc)
           ELSE dcmp2_unwrap(
                    dcmp2_loop(Dcmp_start(make_peekable(table.c)),
                               (header_info.parameters[4] \div ParameterFlags_TAGGED) % 2 = 1,
                               header_info.decompressed_length, table.ret)))

(***************************************************************************)
(* rsrcfork/compress/__init__.py                                           *)
(***************************************************************************)
BytesIO(data) == [data |-> data, pos |-> 0, reads |-> 0, asked |-> 0]

\* compress.decompress_stream_parsed
decompress_stream_parsed(header_info, c) ==
    IF header_info.dcmp_id \notin {0, 1, 2}
    THEN Dcmp_fail(Dcmp_start(c), c, "DecompressError")
    ELSE Bind(IF header_info.dcmp_id = 0 THEN dcmp0_decompress_stream(header_info, c)
              ELSE IF header_info.dcmp_id = 1 THEN dcmp1_decompress_stream(header_info, c)
              ELSE dcmp2_decompress_stream(header_info, c), LAMBDA d :
           IF d.exc # "none" THEN d
           ELSE IF Len(d.out) # header_info.decompressed_length
           THEN Dcmp_fail(d, d.c, "DecompressError")
           ELSE d)

(***************************************************************************)
(* class Resource (api.py).  A resource is named by its place: number ri   *)
(* of the resources of type number ti.  A property returns                 *)
(* [o, ret, exc]; ret is [some, bytes, int, info], some = FALSE for None.  *)
(***************************************************************************)
RetNone == [some |-> FALSE, bytes |-> <<>>, int |-> 0, info |-> NoInfo]

RetBytes(b) == [some |-> TRUE, bytes |-> b, int |-> 0, info |-> NoInfo]

RetInt(n) == [some |-> TRUE, bytes |-> <<>>, int |-> n, info |-> NoInfo]

RetInfo(i) == [some |-> TRUE, bytes |-> <<>>, int |-> 0, info |-> i]

RetOpt(v) == IF v.some THEN RetBytes(v.val) ELSE RetNone

Res(o, ti, ri) == o.references[ti].val[ri].val

SetRes(o, ti, ri, res) == [o EXCEPT !.references[ti].val[ri].val = res]

Raise(o, exc) == [o |-> o, ret |-> RetNone, exc |-> exc]

\* A faulty Resource.name: the name is read at the start of the name list
Resource_name_at_list_start(o, ti, ri) ==
    LET res == Res(o, ti, ri)
        set(oo, v) == [o |-> SetRes(oo, ti, ri, [Res(oo, ti, ri) EXCEPT
                                 !.has_name = TRUE, !.name = v]),
                       ret |-> RetOpt(v), exc |-> "none"]
    IN IF res.has_name THEN [o |-> o, ret |-> RetOpt(res.name), exc |-> "none"]
       ELSE IF res.name_offset = NAME_OFFSET_NONE THEN set(o, NoneBytes)
       ELSE Bind(_stream_seek(o, o.map_offset + o.map_name_list_offset), LAMBDA sk :
              IF sk.exc # "none" THEN Raise(sk.o, sk.exc)
              ELSE Bind(_stream_unpack(sk.o, STRUCT_RESOURCE_NAME_HEADER_size), LAMBDA hd :
                     IF hd.exc # "none" THEN Raise(hd.o, hd.exc)
                     ELSE Bind(_read_exact(hd.o, hd.ret[1]), LAMBDA nm :
                            IF nm.exc # "none" THEN Raise(nm.o, nm.exc)
                            ELSE set(nm.o, SomeBytes(nm.ret)))))

\* Resource.name
Resource_name(o, ti, ri) ==
    LET res == Res(o, ti, ri)
        set(oo, v) == [o |-> SetRes(oo, ti, ri, [Res(oo, ti, ri) EXCEPT
                                 !.has_name = TRUE, !.name = v]),
                       ret |-> RetOpt(v), exc |-> "none"]
    IN IF res.has_name THEN [o |-> o, ret |-> RetOpt(res.name), exc |-> "none"]
       ELSE IF res.name_offset = NAME_OFFSET_NONE THEN set(o, NoneBytes)
       ELSE Bind(_stream_seek(o, o.map_offset + o.map_name_list_offset
                                   + res.name_offset), LAMBDA sk :
              IF sk.exc # "none" THEN Raise(sk.o, sk.exc)
              ELSE Bind(_stream_unpack(sk.o, STRUCT_RESOURCE_NAME_HEADER_size), LAMBDA hd :
                     IF hd.exc # "none" THEN Raise(hd.o, hd.exc)
                     ELSE Bind(_read_exact(hd.o, hd.ret[1]), LAMBDA nm :
                            IF nm.exc # "none" THEN Raise(nm.o, nm.exc)
                            ELSE set(nm.o, SomeBytes(nm.ret)))))

\* Resource.length_raw
Resource_length_raw(o, ti, ri) ==
    LET res == Res(o, ti, ri)
    IN IF res.has_length_raw THEN [o |-> o, ret |-> RetInt(res.length_raw), exc |-> "none"]
       ELSE Bind(_stream_seek(o, o.data_offset + res.data_raw_offset), LAMBDA sk :
              IF sk.exc # "none" THEN Raise(sk.o, sk.exc)
              ELSE Bind(_stream_unpack(sk.o, STRUCT_RESOURCE_DATA_HEADER_size), LAMBDA hd :
                     IF hd.exc # "none" THEN Raise(hd.o, hd.exc)
                     ELSE [o |-> SetRes(hd.o, ti, ri, [Res(hd.o, ti, ri) EXCEPT
                                   !.has_length_raw = TRUE, !.length_raw = U32(hd.ret, 1)]),
                           ret |-> RetInt(U32(hd.ret, 1)), exc |-> "none"]))

\* Resource.open_raw; returns [o, ss, exc]
Resource_open_raw(o, ti, ri) ==
    Bind(Resource_length_raw(o, ti, ri), LAMBDA lr :
        IF lr.exc # "none"
        THEN [o |-> lr.o, ss |-> [start_offset |-> 0, length |-> 0, seek_position |-> 0],
              exc |-> lr.exc]
        ELSE make_substream(lr.o,
                 o.data_offset + Res(o, ti, ri).data_raw_offset
                     + STRUCT_RESOURCE_DATA_HEADER_size,
                 lr.ret.int))

\* A faulty data_raw: the block is read again at every access
Resource_data_raw_reread(o, ti, ri) ==
    Bind(Resource_open_raw(o, ti, ri), LAMBDA f :
        IF f.exc # "none" THEN Raise(f.o, f.exc)
        ELSE Bind(SubStream_read(f.o, f.ss, -1), LAMBDA rd :
               IF rd.exc # "none" THEN Raise(rd.o, rd.exc)
               ELSE [o |-> SetRes(rd.o, ti, ri, [Res(rd.o, ti, ri) EXCEPT
                             !.has_data_raw = TRUE, !.data_raw = rd.ret]),
                     ret |-> RetBytes(rd.ret), exc |-> "none"]))

\* Resource.data_raw
Resource_data_raw(o, ti, ri) ==
    LET res == Res(o, ti, ri)
    IN IF res.has_data_raw THEN [o |-> o, ret |-> RetBytes(res.data_raw), exc |-> "none"]
       ELSE Bind(Resource_open_raw(o, ti, ri), LAMBDA f :
              IF f.exc # "none" THEN Raise(f.o, f.exc)
              ELSE Bind(SubStream_read(f.o, f.ss, -1), LAMBDA rd :
                     IF rd.exc # "none" THEN Raise(rd.o, rd.exc)
                     ELSE [o |-> SetRes(rd.o, ti, ri, [Res(rd.o, ti, ri) EXCEPT
                                   !.has_data_raw = TRUE, !.data_raw = rd.ret]),
                           ret |-> RetBytes(rd.ret), exc |-> "none"]))

\* Resource.compressed_info
Resource_compressed_info(o, ti, ri) ==
    LET res == Res(o, ti, ri)
    IN IF res.attributes % 2 # resCompressed THEN [o |-> o, ret |-> RetNone, exc |-> "none"]
       ELSE IF res.has_compressed_info
       THEN [o |-> o, ret |-> RetInfo(res.compressed_info), exc |-> "none"]
       ELSE Bind(Resource_open_raw(o, ti, ri), LAMBDA f :
              IF f.exc # "none" THEN Raise(f.o, f.exc)
              ELSE Bind(parse_stream(f.o, f.ss), LAMBDA p :
                     IF p.exc # "none" THEN Raise(p.o, p.exc)
                     ELSE [o |-> SetRes(p.o, ti, ri, [Res(p.o, ti, ri) EXCEPT
                                   !.has_compressed_info = TRUE,
                                   !.compressed_info = p.ret]),
                           ret |-> RetInfo(p.ret), exc |-> "none"]))

\* Resource.length
Resource_length(o, ti, ri) ==
    Bind(Resource_compressed_info(o, ti, ri), LAMBDA ci :
        IF ci.exc # "none" THEN ci
        ELSE IF ci.ret.some
        THEN [o |-> ci.o, ret |-> RetInt(ci.ret.info.decompressed_length), exc |-> "none"]
        ELSE Resource_length_raw(ci.o, ti, ri))

\* The bytes a SubStream of o shows
SubStream_view(o, ss) ==
    Slice(SelfStream(o).data, ss.start_offset, ss.start_offset + ss.length)

\* self._stream of o after a codec has read the SubStream ss up to offset c.pos
\* in c.reads calls (each a seek and a read of self._stream)
AfterCodec(o, ss, c) ==
    IF c.reads = 0 THEN o
    ELSE [SetSelfStream(o, [SelfStream(o) EXCEPT !.pos = ss.start_offset + c.pos])
             EXCEPT !.io = o.io + 2 * c.reads]

\* Resource.data
Resource_data(o, ti, ri) ==
    Bind(Resource_compressed_info(o, ti, ri), LAMBDA ci :
        IF ci.exc # "none" THEN ci
        ELSE IF ~ci.ret.some THEN Resource_data_raw(ci.o, ti, ri)
        ELSE IF Res(ci.o, ti, ri).has_data_decompressed
        THEN [o |-> ci.o, ret |-> RetBytes(Res(ci.o, ti, ri).data_decompressed),
              exc |-> "none"]
        ELSE Bind(Resource_open_raw(ci.o, ti, ri), LAMBDA f :
               IF f.exc # "none" THEN Raise(f.o, f.exc)
               ELSE Bind(SubStream_seek(f.ss, ci.ret.info.header_length, "SEEK_SET"),
                         LAMBDA sk :
                      Bind(decompress_stream_parsed(ci.ret.info,
                               [data |-> SubStream_view(f.o, sk.ss),
                                pos |-> sk.ss.seek_position, reads |-> 0,
                                asked |-> 0]), LAMBDA d :
                        Bind(AfterCodec(f.o, sk.ss, d.c), LAMBDA o2 :
                          IF d.exc # "none" THEN Raise(o2, d.exc)
                          ELSE [o |-> SetRes(o2, ti, ri, [Res(o2, ti, ri) EXCEPT
                                        !.has_data_decompressed = TRUE,
                                        !.data_decompressed = d.out]),
                                ret |-> RetBytes(d.out), exc |-> "none"])))))

(***************************************************************************)
(* compress.decompress (rsrcfork/compress/__init__.py), the entry point    *)
(* for compressed data that is not read through a ResourceFile.            *)
(***************************************************************************)
\* CompressedHeaderInfo.parse of compress/__init__.py
CompressedHeaderInfo_parse(data) ==
    Bind(parse_header(SubSeq(data, 1, Min(Len(data), STRUCT_COMPRESSED_HEADER_size))),
         LAMBDA p :
        IF p.exc = "none" /\ p.ret.header_length # 18
        THEN [ret |-> NoInfo, exc |-> "DecompressError"]
        ELSE p)

\* A faulty decompress: the length of the codec's output is not compared
\* with the length the header declares
decompress_unchecked(data) ==
    Bind(CompressedHeaderInfo_parse(data), LAMBDA header_info :
        IF header_info.exc # "none" THEN [ret |-> RetNone, exc |-> header_info.exc]
        ELSE IF ~(header_info.ret.variant = "Type8" /\ header_info.ret.dcmp_id = 1)
        THEN [ret |-> RetNone, exc |-> "DecompressError"]
        ELSE Bind(dcmp1_decompress_stream(header_info.ret,
                      BytesIO(SubSeq(data, header_info.ret.header_length + 1, Len(data)))),
                  LAMBDA d :
               IF d.exc # "none" THEN [ret |-> RetNone, exc |-> d.exc]
               ELSE [ret |-> RetBytes(d.out), exc |-> "none"]))

\* compress.decompress; returns [ret, exc]
decompress(data) ==
    Bind(CompressedHeaderInfo_parse(data), LAMBDA header_info :
        IF header_info.exc # "none" THEN [ret |-> RetNone, exc |-> header_info.exc]
        ELSE IF ~(header_info.ret.variant = "Type8" /\ header_info.ret.dcmp_id = 1)
        THEN [ret |-> RetNone, exc |-> "DecompressError"]
        ELSE Bind(dcmp1_decompress_stream(header_info.ret,
                      BytesIO(SubSeq(data, header_info.ret.header_length + 1, Len(data)))),
                  LAMBDA d :
               IF d.exc # "none" THEN [ret |-> RetNone, exc |-> d.exc]
               ELSE IF Len(d.out) # header_info.ret.decompressed_length
               THEN [ret |-> RetNone, exc |-> "DecompressError"]
               ELSE [ret |-> RetBytes(d.out), exc |-> "none"]))

(***************************************************************************)
(* Resource files to read.  An image is laid out as the format lays it     *)
(* out: header, data blocks, map header, type list, reference lists, name  *)
(* list.  The fields are given raw, so an image need not be well formed.   *)
(***************************************************************************)
DataBlock(b) == BE32(Len(b)) \o b

NameEntry(b) == <<Len(b)>> \o b

TypeEntry(t) == t.code \o BE16(t.count_m1) \o BE16(t.reflist_offset)

ReferenceEntry(r) ==
    BE16(r.id % 65536) \o BE16(r.name_offset) \o <<r.attributes>>
        \o BE24(r.data_offset) \o Zeros(4)

\* l = [data_offset, map_shift, type_list_length_m1, types, refs, names, data]:
\* the header's data offset, what is added to the true map offset in the
\* header, the type list's count field, the type and reference entries,
\* the name list and the data section
Image(l) ==
    LET map == Zeros(22) \o BE16(0) \o BE16(STRUCT_RESOURCE_MAP_HEADER_size)
                   \o BE16(STRUCT_RESOURCE_MAP_HEADER_size
                           + STRUCT_RESOURCE_TYPE_LIST_HEADER_size
                           + STRUCT_RESOURCE_TYPE_size * Len(l.types)
                           + STRUCT_RESOURCE_REFERENCE_size * Len(l.refs))
                   \o BE16(l.type_list_length_m1)
                   \o Flatten([i \in 1..Len(l.types) |-> TypeEntry(l.types[i])])
                   \o Flatten([i \in 1..Len(l.refs) |-> ReferenceEntry(l.refs[i])])
                   \o l.names
    IN BE32(l.data_offset)
           \o BE32(STRUCT_RESOURCE_HEADER_size + Len(l.data) + l.map_shift)
           \o BE32(Len(l.data)) \o BE32(Len(map)) \o Zeros(240)
           \o l.data \o map

TEXT == <<84, 69, 88, 84>>

STR == <<83, 84, 82, 32>>

Ty(code, count_m1, reflist_offset) ==
    [code |-> code, count_m1 |-> count_m1, reflist_offset |-> reflist_offset]

Ref(id, name_offset, attributes, data_offset) ==
    [id |-> id, name_offset |-> name_offset, attributes |-> attributes,
     data_offset |-> data_offset]

\* the header of compressed resource data
CHeader(header_length, compression_type, decompressed_length, remainder) ==
    COMPRESSED_SIGNATURE \o BE16(header_length) \o BE16(compression_type)
        \o BE32(decompressed_length) \o remainder

Type8(decompressed_length, dcmp_id) ==
    CHeader(18, COMPRESSED_TYPE_8, decompressed_length, <<0, 0>> \o BE16(dcmp_id) \o <<0, 0>>)

\* Resource data stored with the compressed attribute
CompressedBlocks ==
    << \* 'dcmp' (1): a stored literal, a backreference to it, the end marker
       Type8(4, 1) \o <<17, 7, 8, 32, 255>>,
       \* the same with a declared length the output does not have
       Type8(5, 1) \o <<17, 7, 8, 32, 255>>,
       \* a literal, a table reference, the end marker: three bytes of output
       Type8(3, 1) \o <<0, 5, 213, 255>>,
       \* a repeat of one byte
       Type8(3, 1) \o <<254, 2, 65, 2, 255>>,
       \* a backreference to a literal that was never stored
       Type8(2, 1) \o <<33, 255>>,
       \* a literal cut short by the end of the data
       Type8(2, 1) \o <<17, 7>>,
       \* data after the end marker
       Type8(2, 1) \o <<1, 7, 8, 255, 0>>,
       \* an unsupported compression type
       CHeader(18, 1792, 4, <<0, 0, 0, 1, 0, 0>>) \o <<17, 7, 8, 32, 255>>,
       \* an unsupported 'dcmp' ID
       Type8(4, 3) \o <<17, 7, 8, 32, 255>>,
       \* less than a header
       <<168, 159, 101>>,
       \* a header length of 0
       CHeader(0, COMPRESSED_TYPE_8, 4, <<0, 0, 0, 1, 0, 0>>) \o <<17, 7, 8, 32, 255>> >>

PlainA == <<1, 2, 3>>

PlainB == <<9>>

NameHi == <<72, 105>>

Layout(tlm1, types, refs, names, data) ==
    [data_offset |-> STRUCT_RESOURCE_HEADER_size, map_shift |-> 0,
     type_list_length_m1 |-> tlm1, types |-> types, refs |-> refs,
     names |-> names, data |-> data]

\* one type with a plain, named resource and a resource holding block b
\* with the attributes attrs
TwoResources(b, attrs) ==
    Layout(0, <<Ty(TEXT, 1, 10)>>,
           <<Ref(128, 0, 0, 0), Ref(129, NAME_OFFSET_NONE, attrs, 7)>>,
           NameEntry(NameHi), DataBlock(PlainA) \o DataBlock(b))

\* How many trailing bytes are cut off an image, at most
MaxCut == 3

Empty == Layout(65535, <<>>, <<>>, <<>>, <<>>)

Plain == TwoResources(PlainB, 0)

\* one type with one named resource holding block b with the attributes attrs
OneResource(b, attrs) ==
    Layout(0, <<Ty(TEXT, 0, 10)>>, <<Ref(128, 0, attrs, 0)>>,
           NameEntry(NameHi), DataBlock(b))

Named == OneResource(PlainA, 0)

\* a resource with the compressed attribute, alone or after a plain resource
CompressedLayouts ==
    {OneResource(CompressedBlocks[i], 1) : i \in 1..Len(CompressedBlocks)}
    \cup {TwoResources(CompressedBlocks[i], 1) : i \in {5, 8}}

Layouts ==
    {Empty, Plain, Named}
    \cup CompressedLayouts
    \cup { \* no types, but a data block and a name
           Layout(65535, <<>>, <<>>, NameEntry(NameHi), DataBlock(PlainA)) }
    \cup { \* two types, the second with a negative ID and a name
           Layout(1, <<Ty(TEXT, 0, 18), Ty(STR, 0, 30)>>,
                  <<Ref(128, 3, 0, 7), Ref(-2, 0, 32, 0)>>,
                  NameEntry(NameHi) \o NameEntry(PlainB),
                  DataBlock(PlainA) \o DataBlock(PlainB)),
           \* the same with the reference lists stored in the other order
           Layout(1, <<Ty(TEXT, 0, 30), Ty(STR, 0, 18)>>,
                  <<Ref(-2, 0, 32, 0), Ref(128, NAME_OFFSET_NONE, 0, 7)>>,
                  NameEntry(NameHi), DataBlock(PlainA) \o DataBlock(PlainB)),
           \* an ID that occurs twice in a reference list
           Layout(0, <<Ty(TEXT, 2, 10)>>,
                  <<Ref(5, NAME_OFFSET_NONE, 0, 0), Ref(7, NAME_OFFSET_NONE, 0, 7),
                    Ref(5, 0, 8, 7)>>,
                  NameEntry(NameHi), DataBlock(PlainA) \o DataBlock(PlainB)),
           \* a type code that occurs twice in the type list
           Layout(1, <<Ty(TEXT, 0, 18), Ty(TEXT, 1, 18)>>,
                  <<Ref(1, NAME_OFFSET_NONE, 0, 0), Ref(2, NAME_OFFSET_NONE, 0, 7)>>,
                  <<>>, DataBlock(PlainA) \o DataBlock(PlainB)),
           \* a type whose count field is 0xffff
           Layout(1, <<Ty(TEXT, 65535, 18), Ty(STR, 0, 18)>>,
                  <<Ref(1, NAME_OFFSET_NONE, 0, 0)>>,
                  <<>>, DataBlock(PlainA)),
           \* a data block whose length runs past the data section, into the map
           Layout(0, <<Ty(TEXT, 0, 10)>>, <<Ref(128, 0, 0, 0)>>,
                  NameEntry(NameHi), BE32(5) \o PlainA),
           \* a data block whose length runs past the end of the file
           Layout(0, <<Ty(TEXT, 0, 10)>>, <<Ref(128, 0, 0, 0)>>,
                  NameEntry(NameHi), BE32(255) \o PlainA),
           \* a data offset at the end of the data section and a name offset
           \* at the end of the name list
           Layout(0, <<Ty(TEXT, 0, 10)>>, <<Ref(128, 3, 0, 7)>>,
                  NameEntry(NameHi), DataBlock(PlainA)),
           \* a data offset that is not the end of the header
           [Named EXCEPT !.data_offset = 0],
           [Named EXCEPT !.data_offset = 257],
           \* a map offset past the map
           [Named EXCEPT !.map_shift = 20],
           [Named EXCEPT !.map_shift = 1000] }

\* the images read: each layout whole, two of them with their last bytes cut
\* off, one of them cut inside each of its parts
Inputs ==
    {Image(l) : l \in Layouts}
    \cup {Prefix(Image(l), Len(Image(l)) - k) : l \in {Empty, Named}, k \in 0..MaxCut}
    \cup {Prefix(Image(Plain), n) : n \in {0, 16, 255, 256, 262, 270, 295, 298, 299,
                                           305, 306, 317, 318, 329}}

(***************************************************************************)
(* The state: objs[f] is ResourceFile number f, last[f] the last property  *)
(* read from it: [op, ti, ri, ret, exc].                                   *)
(***************************************************************************)
NoCall == [op |-> "none", ti |-> 0, ri |-> 0, ret |-> RetNone, exc |-> "none"]

Files == DOMAIN objs

\* no stream has been handed out, and the caller has made no call on one
NoStreams == [open |-> <<>>, calls |-> 0]

\* nothing of rsrcfork/compress runs on its own
NoRun == [fn |-> "none"]

NewStream(img) == [data |-> img, pos |-> 0, closed |-> FALSE]

Init ==
    \E img \in Inputs, seekable \in BOOLEAN, cl \in BOOLEAN :
        /\ objs = <<ResourceFile_init(NewStream(img), seekable, cl)>>
        /\ last = <<NoCall>>
        /\ streams = NoStreams
        /\ run = NoRun

\* one step of the try block of ResourceFile.__init__
OpenStep(f, from, to, r) ==
    /\ objs[f].pc = from
    /\ objs' = [objs EXCEPT ![f] =
                  IF r.exc = "none" THEN [r.o EXCEPT !.pc = to]
                  ELSE [r.o EXCEPT !.pc = "Aborting", !.exc = r.exc]]
    /\ UNCHANGED <<last, streams, run>>

Fresh(f) == [objs[f] EXCEPT !.io = 0]

ReadHeader(f) == OpenStep(f, "Unopened", "HeaderRead", _read_header(Fresh(f)))

\* self._stream.seek(self.map_offset); self._read_map_header()
seek_and_read_map_header(o) ==
    Bind(_stream_seek(o, o.map_offset), LAMBDA sk :
        IF sk.exc # "none" THEN [o |-> sk.o, exc |-> sk.exc]
        ELSE _read_map_header(sk.o))

ReadMapHeader(f) ==
    OpenStep(f, "HeaderRead", "MapHeaderRead", seek_and_read_map_header(Fresh(f)))

ReadAllResourceTypes(f) ==
    OpenStep(f, "MapHeaderRead", "TypesRead", _read_all_resource_types(Fresh(f)))

ReadAllReferences(f) ==
    OpenStep(f, "TypesRead", "ReferencesRead", _read_all_references(Fresh(f)))

\* __init__ returns: the caller holds the ResourceFile
Return(f) ==
    /\ objs[f].pc = "ReferencesRead"
    /\ objs' = [objs EXCEPT ![f].pc = "Ready"]
    /\ UNCHANGED <<last, streams, run>>

\* except BaseException: self.close(); raise
Abort(f) ==
    /\ objs[f].pc = "Aborting"
    /\ objs' = [objs EXCEPT ![f] = [close(@) EXCEPT !.pc = "Failed"]]
    /\ UNCHANGED <<last, streams, run>>

\* the caller closes the ResourceFile (close, or leaving a with block)
Close(f) ==
    /\ objs[f].pc = "Ready"
    /\ objs' = [objs EXCEPT ![f] = [close(@) EXCEPT !.pc = "Closed"]]
    /\ UNCHANGED <<last, streams, run>>

HasRes(o, ti, ri) ==
    /\ ti \in 1..Len(o.references)
    /\ ri \in 1..Len(o.references[ti].val)

\* the property op of a resource
Property(op, o, ti, ri) ==
    CASE op = "name" -> Resource_name(o, ti, ri)
      [] op = "length_raw" -> Resource_length_raw(o, ti, ri)
      [] op = "data_raw" -> Resource_data_raw(o, ti, ri)
      [] op = "compressed_info" -> Resource_compressed_info(o, ti, ri)
      [] op = "length" -> Resource_length(o, ti, ri)
      [] OTHER -> Resource_data(o, ti, ri)

Access(f, ti, ri, op) ==
    /\ objs[f].pc = "Ready"
    /\ HasRes(objs[f], ti, ri)
    /\ Bind(Property(op, Fresh(f), ti, ri), LAMBDA r :
          /\ objs' = [objs EXCEPT ![f] = r.o]
          /\ last' = [last EXCEPT ![f] =
                        [op |-> op, ti |-> ti, ri |-> ri, ret |-> r.ret, exc |-> r.exc]])
    /\ UNCHANGED <<streams, run>>

MaxIndex == 3

Places == (1..MaxIndex) \X (1..MaxIndex)

AccessName(f) == \E p \in Places : Access(f, p[1], p[2], "name")

AccessLengthRaw(f) == \E p \in Places : Access(f, p[1], p[2], "length_raw")

AccessDataRaw(f) == \E p \in Places : Access(f, p[1], p[2], "data_raw")

AccessCompressedInfo(f) == \E p \in Places : Access(f, p[1], p[2], "compressed_info")

AccessLength(f) == \E p \in Places : Access(f, p[1], p[2], "length")

AccessData(f) == \E p \in Places : Access(f, p[1], p[2], "data")

\* compress.decompress(res.data_raw), data_raw having been read
Decompress(f) ==
    \E p \in Places :
        /\ objs[f].pc = "Ready"
        /\ HasRes(objs[f], p[1], p[2])
        /\ Res(objs[f], p[1], p[2]).has_data_raw
        /\ LET r == decompress(Res(objs[f], p[1], p[2]).data_raw)
           IN last' = [last EXCEPT ![f] =
                         [op |-> "decompress", ti |-> p[1], ri |-> p[2],
                          ret |-> r.ret, exc |-> r.exc]]
        /\ UNCHANGED <<objs, streams, run>>

Open(f) ==
    \/ ReadHeader(f)
    \/ ReadMapHeader(f)
    \/ ReadAllResourceTypes(f)
    \/ ReadAllReferences(f)
    \/ Return(f)
    \/ Abort(f)

Next ==
    \E f \in {1} :
        \/ Open(f)
        \/ Close(f)
        \/ AccessName(f)
        \/ AccessLengthRaw(f)
        \/ AccessDataRaw(f)
        \/ AccessCompressedInfo(f)
        \/ AccessLength(f)
        \/ AccessData(f)
        \/ Decompress(f)

Spec == Init /\ [][Next]_vars

(***************************************************************************)
(* Two ResourceFiles over the same bytes: file 1 over a seekable stream,   *)
(* file 2 over a stream that is not seekable.  Each is opened on its own;  *)
(* the caller then reads the same properties from both.                    *)
(***************************************************************************)
InitPair ==
    \E img \in Inputs, cl \in BOOLEAN :
        /\ objs = <<ResourceFile_init(NewStream(img), TRUE, cl),
                    ResourceFile_init(NewStream(img), FALSE, cl)>>
        /\ last = <<NoCall, NoCall>>
        /\ streams = NoStreams
        /\ run = NoRun

Ops == {"name", "length_raw", "data_raw", "compressed_info", "length", "data"}

\* the same property of the resource at the same place of both files
AccessBoth(ti, ri, op) ==
    /\ \A f \in {1, 2} : objs[f].pc = "Ready" /\ HasRes(objs[f], ti, ri)
    /\ Bind(Property(op, Fresh(1), ti, ri), LAMBDA r1 :
         Bind(Property(op, Fresh(2), ti, ri), LAMBDA r2 :
           /\ objs' = <<r1.o, r2.o>>
           /\ last' = <<[op |-> op, ti |-> ti, ri |-> ri, ret |-> r1.ret, exc |-> r1.exc],
                        [op |-> op, ti |-> ti, ri |-> ri, ret |-> r2.ret, exc |-> r2.exc]>>))
    /\ UNCHANGED <<streams, run>>

NextPair ==
    \/ \E f \in {1, 2} : Open(f) \/ Close(f)
    \/ \E p \in Places, op \in Ops : AccessBoth(p[1], p[2], op)

SpecPair == InitPair /\ [][NextPair]_vars

(***************************************************************************)
(* The streams of an open ResourceFile.  The caller opens streams with     *)
(* Resource.open_raw and Resource.open, reads and seeks them and reads     *)
(* properties in between, in any order.  Beside every stream (shared) the  *)
(* state holds the same stream over a ResourceFile of its own (solo),      *)
(* which gets the same calls and has its underlying stream for itself.     *)
(***************************************************************************)
\* ResourceFile(stream, close=cl): the whole of __init__
ResourceFile_new(stream, seekable, cl) ==
    LET fail(r) == [o |-> [close(r.o) EXCEPT !.pc = "Failed", !.exc = r.exc], exc |-> r.exc]
    IN Bind(_read_header(ResourceFile_init(stream, seekable, cl)), LAMBDA h :
         IF h.exc # "none" THEN fail(h)
         ELSE Bind(seek_and_read_map_header(h.o), LAMBDA m :
           IF m.exc # "none" THEN fail(m)
           ELSE Bind(_read_all_resource_types(m.o), LAMBDA t :
             IF t.exc # "none" THEN fail(t)
             ELSE Bind(_read_all_references(t.o), LAMBDA r :
               IF r.exc # "none" THEN fail(r)
               ELSE [o |-> [r.o EXCEPT !.pc = "Ready", !.io = 0], exc |-> "none"]))))

\* Resource.open: io.BytesIO(self.data)
Resource_open(o, ti, ri) ==
    Bind(Resource_data(o, ti, ri), LAMBDA d :
        [o |-> d.o, s |-> NewStream(d.ret.bytes), exc |-> d.exc])

\* io.BytesIO.seek
BytesIO_seek(s, offset, whence) ==
    LET p == CASE whence = "SEEK_SET" -> offset
               [] whence = "SEEK_CUR" -> s.pos + offset
               [] OTHER -> Len(s.data) + offset
    IN IF s.closed \/ (whence = "SEEK_SET" /\ offset < 0)
       THEN [s |-> s, ret |-> 0, exc |-> "ValueError"]
       ELSE [s |-> [s EXCEPT !.pos = Max(0, p)], ret |-> Max(0, p), exc |-> "none"]

NoSubStream == [start_offset |-> 0, length |-> 0, seek_position |-> 0]

\* a stream in the hands of the caller: a SubStream ss or a BytesIO s, what
\* its last call returned, and whether that call found the underlying
\* stream at another place than the stream's own
Handle(kind, ss, s) ==
    [kind |-> kind, ss |-> ss, s |-> s, ret |-> <<>>, pos |-> 0, exc |-> "none",
     elsewhere |-> FALSE]

\* stream.read(size) on a handle h of the ResourceFile o; returns [o, h]
Handle_read(o, h, size) ==
    IF h.kind = "SubStream"
    THEN Bind(SubStream_read([o EXCEPT !.io = 0], h.ss, size), LAMBDA r :
           [o |-> r.o,
            h |-> [h EXCEPT !.ss = r.ss, !.ret = r.ret, !.exc = r.exc,
                            !.pos = r.ss.seek_position,
                            !.elsewhere = SelfStream(o).pos
                                              # h.ss.start_offset + h.ss.seek_position]])
    ELSE Bind(PyRead(h.s, size), LAMBDA r :
           [o |-> o,
            h |-> [h EXCEPT !.s = r.s, !.ret = r.ret, !.exc = r.exc, !.pos = r.s.pos,
                            !.elsewhere = FALSE]])

\* stream.seek(offset, whence) on a handle; the underlying stream is not touched
Handle_seek(h, offset, whence) ==
    IF h.kind = "SubStream"
    THEN Bind(SubStream_seek(h.ss, offset, whence), LAMBDA r :
           [h EXCEPT !.ss = r.ss, !.ret = <<>>, !.exc = r.exc, !.pos = r.ret,
                     !.elsewhere = FALSE])
    ELSE Bind(BytesIO_seek(h.s, offset, whence), LAMBDA r :
           [h EXCEPT !.s = r.s, !.ret = <<>>, !.exc = r.exc, !.pos = r.ret,
                     !.elsewhere = FALSE])

\* How many calls the caller makes on an open ResourceFile, at most
MaxCalls == 4

StreamLayouts == {Plain, TwoResources(CompressedBlocks[1], 1)}

InitStreams ==
    \E l \in StreamLayouts, seekable \in BOOLEAN :
        /\ objs = <<ResourceFile_new(NewStream(Image(l)), seekable, FALSE).o>>
        /\ last = <<NoCall>>
        /\ streams = NoStreams
        /\ run = NoRun

\* the ResourceFile a solo stream is opened on: one of its own over the same bytes
Pristine == ResourceFile_new(NewStream(objs[1].src.data), ~objs[1].wrapped, FALSE).o

Called == streams.calls < MaxCalls /\ objs[1].pc = "Ready"

Hand(shared, solo, solo_o) ==
    [streams EXCEPT !.calls = @ + 1,
                    !.open = Append(@, [shared |-> shared, solo |-> solo, solo_o |-> solo_o])]

\* the caller calls open_raw() of a resource
OpenRaw(ti, ri) ==
    /\ Called
    /\ HasRes(objs[1], ti, ri)
    /\ Bind(Resource_open_raw(Fresh(1), ti, ri), LAMBDA r :
         Bind(Resource_open_raw(Pristine, ti, ri), LAMBDA q :
           /\ r.exc = "none"
           /\ objs' = [objs EXCEPT ![1] = r.o]
           /\ streams' = Hand(Handle("SubStream", r.ss, NewStream(<<>>)),
                              Handle("SubStream", q.ss, NewStream(<<>>)), q.o)))
    /\ UNCHANGED <<last, run>>

\* the caller calls open() of a resource
OpenData(ti, ri) ==
    /\ Called
    /\ HasRes(objs[1], ti, ri)
    /\ Bind(Resource_open(Fresh(1), ti, ri), LAMBDA r :
         Bind(Resource_open(Pristine, ti, ri), LAMBDA q :
           /\ r.exc = "none"
           /\ objs' = [objs EXCEPT ![1] = r.o]
           /\ streams' = Hand(Handle("BytesIO", NoSubStream, r.s),
                              Handle("BytesIO", NoSubStream, q.s), q.o)))
    /\ UNCHANGED <<last, run>>

\* the caller reads from one of its streams
StreamRead(k, size) ==
    /\ Called
    /\ k \in 1..Len(streams.open)
    /\ Bind(Handle_read(objs[1], streams.open[k].shared, size), LAMBDA r :
         Bind(Handle_read(streams.open[k].solo_o, streams.open[k].solo, size), LAMBDA q :
           /\ objs' = [objs EXCEPT ![1] = r.o]
           /\ streams' = [streams EXCEPT !.calls = @ + 1,
                                         !.open[k].shared = r.h,
                                         !.open[k].solo = q.h,
                                         !.open[k].solo_o = q.o]))
    /\ UNCHANGED <<last, run>>

\* the caller seeks one of its streams
StreamSeek(k, offset, whence) ==
    /\ Called
    /\ k \in 1..Len(streams.open)
    /\ streams' = [streams EXCEPT
                      !.calls = @ + 1,
                      !.open[k].shared = Handle_seek(@, offset, whence),
                      !.open[k].solo = Handle_seek(@, offset, whence)]
    /\ UNCHANGED <<objs, last, run>>

\* the caller reads a property of a resource
AccessBetween(ti, ri, op) ==
    /\ Called
    /\ HasRes(objs[1], ti, ri)
    /\ Bind(Property(op, Fresh(1), ti, ri), LAMBDA r :
          /\ objs' = [objs EXCEPT ![1] = r.o]
          /\ last' = [last EXCEPT ![1] =
                        [op |-> op, ti |-> ti, ri |-> ri, ret |-> r.ret, exc |-> r.exc]])
    /\ streams' = [streams EXCEPT !.calls = @ + 1]
    /\ UNCHANGED run

NextStreams ==
    \/ \E p \in Places : OpenRaw(p[1], p[2])
    \/ \E p \in Places : OpenData(p[1], p[2])
    \/ \E k \in 1..MaxCalls, size \in {-1, 1} : StreamRead(k, size)
    \/ \E k \in 1..MaxCalls :
           \E c \in {<<0, "SEEK_SET">>, <<1, "SEEK_END">>} :
               StreamSeek(k, c[1], c[2])
    \/ \E p \in Places, op \in {"name", "length_raw"} : AccessBetween(p[1], p[2], op)

SpecStreams == InitStreams /\ [][NextStreams]_vars

(***************************************************************************)
(* rsrcfork/compress on its own: one call of a function on a stream over   *)
(* the bytes input.  run is [fn, stage, input, header_info, d, w, ret,      *)
(* info]: the function, "called", "running" or "returned", the state d of  *)
(* the call (its stream, and for a decoder its stored literals and what    *)
(* decompress_stream_inner yielded), the state w of the for loop of        *)
(* dcmp0.decompress_stream, and what the call returned; d.exc is the       *)
(* exception that ended it.  For dcmp2.decompress_stream, table is the     *)
(* lookup table chosen and d.c the stream in its peek wrapper.             *)
(***************************************************************************)
Call(fn, input, header_info) ==
    [fn |-> fn, stage |-> "called", input |-> input, header_info |-> header_info,
     d |-> Dcmp_start(BytesIO(input)), w |-> [decompressed_length |-> 0, chunks |-> <<>>],
     table |-> <<>>, ret |-> 0, info |-> NoInfo]

\* the bytes after the signature of the headers parsed, and how many bytes
\* of a header and two more are in the stream
HeaderInputs ==
    {Prefix(sig \o BE16(hl) \o BE16(ct) \o BE32(dl) \o rem \o <<17, 255>>, n) :
        sig \in {COMPRESSED_SIGNATURE, <<168, 159, 101, 115>>},
        hl \in {0, 18, 17, 4608},
        ct \in {COMPRESSED_TYPE_8, COMPRESSED_TYPE_9, 1792, 264},
        dl \in {0, 4, 16777217},
        rem \in {<<0, 0, 0, 1, 0, 0>>, <<1, 2, 255, 255, 0, 0>>,
                 <<0, 0, 0, 1, 0, 1>>, <<0, 2, 1, 2, 3, 4>>},
        n \in {0, 17, 18, 20}}

\* the variable-length integers read: a first byte and up to MaxTail more
MaxTail == 5

Tails(n) == UNION {[1..k -> {0, 128, 255}] : k \in 0..n}

IntegerInputs ==
    {<<b0>> \o t : b0 \in {0, 1, 127, 128, 129, 191, 192, 193, 254, 255}, t \in Tails(MaxTail)}
    \cup {<<>>}

\* n stored literals of no bytes (tag 0x10, length byte 0)
Stores(n) == Repeat(<<16, 0>>, n)

\* 'dcmp' (0) data and the decompressed length declared for it
Dcmp0Inputs ==
    { \* one literal of 4 bytes, 3 declared
      <<3, <<2, 65, 66, 67, 68, 255>>>>,
      \* three literals of 2 bytes, 3 declared
      <<3, <<1, 65, 66, 1, 67, 68, 1, 69, 70, 255>>>>,
      \* two literals of 2 bytes and a repeat of one byte, 3 declared
      <<3, <<1, 65, 66, 1, 67, 68, 254, 2, 65, 0, 255>>>>,
      \* two literals of 2 bytes, 4 declared
      <<4, <<1, 65, 66, 1, 67, 68, 255>>>>,
      \* a byte after the end marker
      <<2, <<1, 65, 66, 255, 0>>>>,
      \* no end marker
      <<2, <<1, 65, 66>>>>,
      \* a literal of the bytes 0xff 0xff
      <<2, <<1, 255, 255, 255>>>>,
      \* a backreference with nothing stored
      <<2, <<35, 255>>>>,
      \* a table reference, 1 declared
      <<1, <<75, 255>>>>,
      \* a literal of 2 bytes that is not stored, and a backreference
      <<2, <<1, 65, 66, 35, 255>>>>,
      \* a jump table with a segment number of -32768
      <<2, <<254, 0, 128, 0>>>>,
      \* differences of 32 bits with a count of -16128
      <<4, <<254, 6, 0, 129, 0>>>>,
      \* a jump table of 3 entries from the address 0xfffe on: the
      \* differences 10 and 0 pass 0xffff and 0
      <<30, <<254, 0, 1, 3, 255, 0, 0, 255, 254, 10, 0, 255>>>>,
      \* a jump table with the differences 2^31 - 1 and -2^31
      <<30, <<254, 0, 0, 3, 5, 255, 127, 255, 255, 255, 255, 128, 0, 0, 0, 255>>>>,
      \* a jump table whose explicit address is 0x10000
      <<14, <<254, 0, 0, 1, 255, 0, 1, 0, 0, 255>>>>,
      \* 16-bit integers from -1 on with the differences 1, -1 and -128
      <<8, <<254, 4, 191, 255, 3, 1, 255, 128, 255>>>>,
      \* 16-bit integers from 0x7fff on with the difference 127
      <<4, <<254, 4, 255, 0, 0, 127, 255, 1, 127, 255>>>>,
      \* 32-bit integers with a count of 2^31 - 1 and 2 differences
      <<12, <<254, 6, 0, 255, 127, 255, 255, 255, 1, 2>>>>,
      \* a jump table with a count of 2^31 - 1 and 1 difference
      <<22, <<254, 0, 0, 255, 127, 255, 255, 255, 0, 6>>>>,
      \* data that ends inside a literal, and inside the index of a backreference
      <<4, <<2, 65, 66, 67>>>>,
      <<2, <<17, 65, 66, 34, 0>>>>,
      \* data that ends after a literal
      <<2, <<1, 65, 66>>>>,
      \* 16-bit integers cut short after the first difference
      <<6, <<254, 4, 0, 2, 255>>>>,
      \* 32-bit integers from -1 on with the differences 1, -1 and -2^31
      <<16, <<254, 6, 191, 255, 3, 1, 255, 255, 255, 255, 255, 255, 128, 0, 0, 0, 255>>>>,
      \* 32-bit integers from 2^31 - 1 on with the difference 2^31 - 1
      <<8, <<254, 6, 255, 127, 255, 255, 255, 1, 255, 127, 255, 255, 255, 255>>>>,
      \* a literal, then 32-bit integers cut short inside a difference
      <<10, <<1, 65, 66, 254, 6, 5, 2, 1, 255, 0>>>> }

\* 'dcmp' (0) data decoded pass by pass only
Dcmp0LongInputs ==
    { \* 41 stored literals and a backreference of every form
      <<6, Stores(40) \o <<17, 65, 66, 32, 0, 34, 0, 0, 35, 74, 255>>>>,
      \* 41 stored literals and a backreference past them
      <<2, Stores(40) \o <<17, 65, 66, 33, 0, 255>>>> }

\* 'dcmp' (1) data and the decompressed length declared for it
Dcmp1Inputs ==
    { \* a stored literal and a backreference to it
      <<4, <<17, 7, 8, 32, 255>>>>,
      \* a backreference past the stored literals
      <<2, <<33, 255>>>>,
      \* a byte after the end marker
      <<2, <<1, 7, 8, 255, 0>>>>,
      \* no end marker
      <<2, <<1, 7, 8>>>>,
      \* a literal of the byte 0xff
      <<1, <<0, 255, 255>>>>,
      \* tag 0xd1 stores its literal, tag 0xd0 does not
      <<7, <<209, 2, 65, 66, 32, 208, 1, 67, 210, 0, 255>>>>,
      \* a literal that is not stored, and a backreference
      <<2, <<1, 65, 66, 32, 255>>>> }

\* the bytes put after a tag of 'dcmp' (1): a length or a kind of 2, and
\* enough bytes for the longest literal
Dcmp1Tail == <<2, 3, 0, 4, 5, 6, 7, 8, 9, 10, 11, 12, 13, 14, 15, 16, 17, 255>>

\* 'dcmp' (1) data decoded pass by pass only: every tag byte after one
\* stored literal, every extended code, 177 stored literals followed by
\* the backreferences 0xcf, 0xd2 0x00 and 0xd2 0x01, and repeats
Dcmp1TagInputs ==
    {<<0, <<17, 65, 66, tag>> \o Dcmp1Tail>> : tag \in 0..255}
    \cup {<<0, <<254, kind>>>> : kind \in 0..255}
    \cup {<<0, Repeat(<<16, 7>>, 175) \o <<16, 8, 16, 9, 207, 210, 0, 210, 1, 255>>>>,
          \* a repeat of 3 bytes, then one of the value -16128
          <<3, <<254, 2, 65, 2, 254, 2, 129, 0, 0, 255>>>>,
          \* a repeat with the count -1 + 1
          <<0, <<254, 2, 65, 191, 255, 255>>>>}

\* 'dcmp' (2) data, the parameters of the header and the declared length
Dcmp2Inputs ==
    { \* a custom table of one entry, two references to it
      <<4, <<0, 0, 0, 1>>, <<65, 66, 0, 0>>>>,
      \* a custom table of one entry, a reference to entry 1
      <<4, <<0, 0, 0, 1>>, <<65, 66, 0, 1>>>>,
      \* the default table
      <<4, <<0, 0, 0, 0>>, <<0, 1>>>>,
      \* the default table, 3 declared: the last byte is a literal
      <<3, <<0, 0, 0, 0>>, <<0, 88>>>>,
      \* tagged, a custom table: a reference and a literal
      <<4, <<0, 0, 0, 3>>, <<65, 66, 128, 0, 67, 68>>>>,
      \* tagged, a custom table of one entry, a reference to entry 5
      <<4, <<0, 0, 0, 3>>, <<65, 66, 128, 5>>>>,
      \* tagged, the default table, a literal cut short
      <<5, <<0, 0, 0, 2>>, <<64, 1, 2, 3, 4>>>>,
      \* a flag without a meaning
      <<4, <<0, 0, 0, 4>>, <<0>>>>,
      \* the default table with a count
      <<4, <<0, 0, 1, 0>>, <<0>>>>,
      \* a custom table cut short
      <<3, <<0, 0, 1, 1>>, <<65, 66, 67>>>> }

\* 'dcmp' (2) data decoded pass by pass only
Dcmp2StepInputs ==
    { \* tagged, 3 declared: a literal, then a reference in the last byte
      <<3, <<0, 0, 0, 2>>, <<64, 65, 66, 5>>>>,
      \* tagged, 3 declared: a literal, then a literal of the last byte
      <<3, <<0, 0, 0, 2>>, <<0, 65, 66, 67>>>>,
      \* tagged, 3 declared: a reference, then a literal of the last byte
      <<3, <<0, 0, 0, 2>>, <<128, 5, 67>>>>,
      \* tagged, 17 declared: 8 references, then one byte in place of a tag
      <<17, <<0, 0, 0, 2>>, <<255, 0, 1, 2, 3, 4, 5, 6, 7, 9>>>>,
      \* tagged, 4 declared: two references, the second in the last byte
      <<4, <<0, 0, 0, 2>>, <<192, 5, 6>>>>,
      \* tagged, 18 declared: references and literals by turns, then a block
      \* of one literal
      <<18, <<0, 0, 0, 2>>, <<170, 0, 65, 66, 1, 67, 68, 2, 69, 70, 3, 71, 72, 0, 73, 74>>>>,
      \* tagged, 2 declared: a literal of 2 bytes and one of the last byte
      <<2, <<0, 0, 0, 2>>, <<0, 65, 66, 128>>>>,
      \* tagged, 16 declared: 8 references, then the data ends with a tag
      <<16, <<0, 0, 0, 2>>, <<255, 0, 1, 2, 3, 4, 5, 6, 7, 128>>>>,
      \* untagged, 5 declared: two references and the last byte
      <<5, <<0, 0, 0, 0>>, <<0, 255, 9>>>>,
      \* untagged, 6 declared: three references
      <<6, <<0, 0, 0, 0>>, <<0, 255, 9>>>>,
      \* no data
      <<0, <<0, 0, 0, 0>>, <<>>>>,
      \* a custom table of 256 entries cut short, 2 entries, tagged
      <<6, <<0, 0, 255, 1>>, <<65, 66, 67, 68>>>>,
      <<6, <<0, 0, 1, 3>>, <<65, 66, 67, 68, 160, 1, 69, 70, 0>>>>,
      \* a custom table of 16 entries and references to the entries 15 and 16
      <<4, <<0, 0, 15, 1>>, SubSeq(DCMP2_DEFAULT_TABLE_DATA, 1, 32) \o <<15, 16>>>>,
      \* a custom table of 16 entries with 31 bytes in the data
      <<0, <<0, 0, 15, 1>>, SubSeq(DCMP2_DEFAULT_TABLE_DATA, 1, 31)>>,
      \* the default table with a count, tagged
      <<2, <<0, 0, 255, 2>>, <<128, 0>>>> }

Type8Info(decompressed_length, dcmp_id) ==
    CompressedType8HeaderInfo(18, COMPRESSED_TYPE_8, decompressed_length, dcmp_id, 0, 0)

Type9Info(decompressed_length, parameters) ==
    CompressedType9HeaderInfo(18, COMPRESSED_TYPE_9, decompressed_length, 2, parameters)

InitCompress ==
    /\ objs = <<>>
    /\ last = <<>>
    /\ streams = NoStreams
    /\ run \in {Call("parse_stream", b, NoInfo) : b \in HeaderInputs}
           \cup {Call("read_variable_length_integer", b, NoInfo) : b \in IntegerInputs}
           \cup {Call("dcmp0.decompress_stream", i[2], Type8Info(i[1], 0)) :
                     i \in Dcmp0Inputs \cup Dcmp0LongInputs}
           \cup {Call("dcmp1.decompress_stream", i[2], Type8Info(i[1], 1)) :
                     i \in Dcmp1Inputs \cup Dcmp1TagInputs}
           \cup {Call("decompress_stream_parsed", i[2], Type8Info(i[1], 0)) : i \in Dcmp0Inputs}
           \cup {Call("decompress_stream_parsed", i[2], Type8Info(i[1], 1)) : i \in Dcmp1Inputs}
           \cup {Call("decompress_stream_parsed", i[3], Type9Info(i[1], i[2])) : i \in Dcmp2Inputs}
           \cup {Call("dcmp2.decompress_stream", i[3], Type9Info(i[1], i[2])) :
                     i \in Dcmp2Inputs \cup Dcmp2StepInputs}

Returned(r) == [r EXCEPT !.stage = "returned"]

\* CompressedHeaderInfo.parse_stream(stream)
ParseStream ==
    /\ run.fn = "parse_stream" /\ run.stage = "called"
    /\ Bind(c_read(run.d.c, STRUCT_COMPRESSED_HEADER_size), LAMBDA rd :
         Bind(parse_header(rd.ret), LAMBDA p :
           run' = Returned([run EXCEPT !.d.c = rd.c, !.d.exc = p.exc, !.info = p.ret])))
    /\ UNCHANGED <<objs, last, streams>>

\* read_variable_length_integer(stream)
ReadVariableLengthInteger ==
    /\ run.fn = "read_variable_length_integer" /\ run.stage = "called"
    /\ Bind(read_variable_length_integer(run.d.c), LAMBDA r :
         run' = Returned([run EXCEPT !.d.c = r.c, !.d.exc = r.exc, !.ret = r.ret]))
    /\ UNCHANGED <<objs, last, streams>>

\* the call after one pass of the while loop of decompress_stream_inner
\* that left r = [d, done]
Stepped(r) ==
    [run EXCEPT !.d = r.d,
                !.stage = IF r.done \/ r.d.exc # "none" THEN "returned" ELSE "running"]

\* dcmp0.decompress_stream: decompress_stream_inner is run up to the end of
\* a pass of its while loop, and every chunk it yields goes through the body
\* of the for loop
Dcmp0Step ==
    /\ run.fn = "dcmp0.decompress_stream" /\ run.stage # "returned"
    /\ run' = IF run.stage = "called" /\ run.header_info.variant # "Type8"
              THEN Returned([run EXCEPT !.d.exc = "DecompressError"])
              ELSE Bind(dcmp0_step(run.d), LAMBDA r :
                     [Stepped(r) EXCEPT
                         !.w = dcmp0_pass_chunks(run.header_info, run.w,
                                   SubSeq(r.d.chunks, Len(run.d.chunks) + 1, Len(r.d.chunks)))])
    /\ UNCHANGED <<objs, last, streams>>

\* dcmp1.decompress_stream, run up to the end of a pass of the while loop
Dcmp1Step ==
    /\ run.fn = "dcmp1.decompress_stream" /\ run.stage # "returned"
    /\ run' = IF run.stage = "called" /\ run.header_info.variant # "Type8"
              THEN Returned([run EXCEPT !.d.exc = "DecompressError"])
              ELSE Bind(dcmp1_step(run.d), LAMBDA r :
                     [Stepped(r) EXCEPT !.w = [decompressed_length |-> Len(r.d.out),
                                               chunks |-> r.d.chunks]])
    /\ UNCHANGED <<objs, last, streams>>

\* dcmp2.decompress_stream: from the call to the choice of the table, and
\* then _decompress_tagged or _decompress_untagged run up to the end of a
\* pass of its while loop
Dcmp2Step ==
    /\ run.fn = "dcmp2.decompress_stream" /\ run.stage # "returned"
    /\ run' =
         IF run.stage = "called" /\ run.header_info.variant # "Type9"
         THEN Returned([run EXCEPT !.d.exc = "DecompressError"])
         ELSE IF run.stage = "called"
         THEN Bind(dcmp2_table(run.header_info, run.d.c), LAMBDA table :
                IF table.exc # "none"
                THEN Returned([run EXCEPT !.d.c = table.c, !.d.exc = table.exc])
                ELSE [run EXCEPT !.stage = "running", !.table = table.ret,
                                 !.d.c = make_peekable(table.c)])
         ELSE Bind(IF (run.header_info.parameters[4] \div ParameterFlags_TAGGED) % 2 = 1
                   THEN dcmp2_tagged_step(run.d, run.header_info.decompressed_length,
                                          run.table)
                   ELSE dcmp2_untagged_step(run.d, run.header_info.decompressed_length,
                                            run.table), LAMBDA r :
                [Stepped(r) EXCEPT !.w = [decompressed_length |-> Len(r.d.out),
                                          chunks |-> r.d.chunks]])
    /\ UNCHANGED <<objs, last, streams>>

\* b"".join(compress.decompress_stream_parsed(header_info, stream))
DecompressStreamParsed ==
    /\ run.fn = "decompress_stream_parsed" /\ run.stage = "called"
    /\ Bind(decompress_stream_parsed(run.header_info, run.d.c), LAMBDA d :
         run' = Returned([run EXCEPT !.d = d,
                                     !.w = [decompressed_length |-> Len(d.out),
                                            chunks |-> d.chunks]]))
    /\ UNCHANGED <<objs, last, streams>>

NextCompress ==
    \/ ParseStream
    \/ ReadVariableLengthInteger
    \/ Dcmp0Step
    \/ Dcmp1Step
    \/ Dcmp2Step
    \/ DecompressStreamParsed

SpecCompress == InitCompress /\ [][NextCompress]_vars

\* The calls of the three decoders alone, each run pass by pass
InitCodecs ==
    /\ objs = <<>>
    /\ last = <<>>
    /\ streams = NoStreams
    /\ run \in {Call("dcmp0.decompress_stream", i[2], Type8Info(i[1], 0)) :
                     i \in Dcmp0Inputs \cup Dcmp0LongInputs}
           \cup {Call("dcmp1.decompress_stream", i[2], Type8Info(i[1], 1)) :
                     i \in Dcmp1Inputs \cup Dcmp1TagInputs}
           \cup {Call("dcmp2.decompress_stream", i[3], Type9Info(i[1], i[2])) :
                     i \in Dcmp2Inputs \cup Dcmp2StepInputs}

NextCodecs ==
    \/ Dcmp0Step
    \/ Dcmp1Step
    \/ Dcmp2Step

\* a generator that has not returned is run on: the caller joins all of its
\* chunks, so every pass of the while loop that is due is taken
SpecCodecs == InitCodecs /\ [][NextCodecs]_vars /\ WF_vars(NextCodecs)

(***************************************************************************)
(* rsrcfork.py, the module in one file.  Its ResourceFile reads the file   *)
(* with seeking (_init_seeking) or in a single pass (_init_streaming).  An *)
(* object o holds the stream, the counter _pos kept without seeking, the   *)
(* attributes set by the _read_* methods (the dictionaries as sequences of *)
(* [key, val] in insertion order), the statement of __init__ reached (pc)  *)
(* and the exception that ended __init__ (exc).                            *)
(***************************************************************************)
rsrcfork_ResourceFile(data, allow_seek) ==
    [stream |-> [data |-> data, pos |-> 0], _allow_seek |-> allow_seek, _pos |-> 0,
     pc |-> "Fresh", exc |-> "none",
     data_offset |-> 0, map_offset |-> 0, data_length |-> 0, map_length |-> 0,
     map_type_list_offset |-> 0, map_name_list_offset |-> 0,
     _resource_data |-> <<>>, _reference_counts |-> <<>>, _references |-> <<>>,
     _resource_names |-> <<>>]

\* ResourceFile._tell
rsrcfork_tell(o) == IF o._allow_seek THEN o.stream.pos ELSE o._pos

\* ResourceFile._read: [o, ret]
rsrcfork_read(o, count) ==
    LET got == Slice(o.stream.data, o.stream.pos, o.stream.pos + count)
    IN [o |-> [o EXCEPT !.stream.pos = @ + Len(got),
                        !._pos = IF o._allow_seek THEN @ ELSE @ + Len(got)],
        ret |-> got]

\* ResourceFile._stream_unpack for a struct of size bytes: [o, ret]
rsrcfork_stream_unpack(o, size) ==
    Bind(rsrcfork_read(o, size), LAMBDA r :
        [o |-> IF Len(r.ret) # size THEN [r.o EXCEPT !.exc = "struct.error"] ELSE r.o,
         ret |-> r.ret])

\* assert cond
rsrcfork_assert(o, cond) == IF cond THEN o ELSE [o EXCEPT !.exc = "AssertionError"]

\* ResourceFile._read_header
rsrcfork_read_header(o) ==
    IF rsrcfork_tell(o) # 0 THEN rsrcfork_assert(o, FALSE)
    ELSE Bind(rsrcfork_stream_unpack(o, STRUCT_RESOURCE_HEADER_size), LAMBDA h :
           IF h.o.exc # "none" THEN h.o
           ELSE Bind([h.o EXCEPT !.data_offset = U32(h.ret, 1), !.map_offset = U32(h.ret, 5),
                                 !.data_length = U32(h.ret, 9), !.map_length = U32(h.ret, 13)],
                     LAMBDA o1 : rsrcfork_assert(o1, rsrcfork_tell(o1) = o1.data_offset)))

\* ResourceFile._read_all_resource_data: the while loop
RECURSIVE rsrcfork_data_loop(_)
rsrcfork_data_loop(o) ==
    IF ~(rsrcfork_tell(o) < o.map_offset) THEN o
    ELSE Bind(rsrcfork_tell(o), LAMBDA initial_pos :
           Bind(rsrcfork_stream_unpack(o, STRUCT_RESOURCE_DATA_HEADER_size), LAMBDA h :
             IF h.o.exc # "none" THEN h.o
             ELSE IF ~(rsrcfork_tell(h.o) + U32(h.ret, 1) <= h.o.map_offset)
             THEN rsrcfork_assert(h.o, FALSE)
             ELSE Bind(rsrcfork_read(h.o, U32(h.ret, 1)), LAMBDA b :
                    rsrcfork_data_loop(
                        [b.o EXCEPT !._resource_data = OD_Set(@, initial_pos, b.ret)]))))

\* ResourceFile._read_all_resource_data
rsrcfork_read_all_resource_data(o) ==
    IF rsrcfork_tell(o) # o.data_offset THEN rsrcfork_assert(o, FALSE)
    ELSE Bind(rsrcfork_data_loop([o EXCEPT !._resource_data = <<>>]), LAMBDA o1 :
           IF o1.exc # "none" THEN o1
           ELSE rsrcfork_assert(o1, rsrcfork_tell(o1) = o1.map_offset))

\* ResourceFile._read_map_header
rsrcfork_read_map_header(o) ==
    IF rsrcfork_tell(o) # o.map_offset THEN rsrcfork_assert(o, FALSE)
    ELSE Bind(rsrcfork_stream_unpack(o, STRUCT_RESOURCE_MAP_HEADER_size), LAMBDA h :
           IF h.o.exc # "none" THEN h.o
           ELSE IF U16(h.ret, 23) > 255 THEN [h.o EXCEPT !.exc = "ValueError"]
           ELSE [h.o EXCEPT !.map_type_list_offset = U16(h.ret, 25),
                            !.map_name_list_offset = U16(h.ret, 27)])

\* ResourceFile._read_all_resource_types: the for loop, n passes to come
RECURSIVE rsrcfork_types_loop(_, _)
rsrcfork_types_loop(o, n) ==
    IF n <= 0 THEN o
    ELSE Bind(rsrcfork_stream_unpack(o, STRUCT_RESOURCE_TYPE_size), LAMBDA e :
           IF e.o.exc # "none" THEN e.o
           ELSE rsrcfork_types_loop(
                    [e.o EXCEPT !._reference_counts =
                                    OD_Set(@, SubSeq(e.ret, 1, 4), U16(e.ret, 5) + 1)],
                    n - 1))

\* ResourceFile._read_all_resource_types
rsrcfork_read_all_resource_types(o) ==
    Bind(rsrcfork_stream_unpack([o EXCEPT !._reference_counts = <<>>],
                                STRUCT_RESOURCE_TYPE_LIST_HEADER_size), LAMBDA h :
        IF h.o.exc # "none" THEN h.o
        ELSE rsrcfork_types_loop(h.o, U16(h.ret, 1) + 1))

\* ResourceFile._read_all_references: the inner for loop, n passes to come
\* for the type number ti of _reference_counts
RECURSIVE rsrcfork_refs_loop(_, _, _)
rsrcfork_refs_loop(o, ti, n) ==
    IF n <= 0 THEN o
    ELSE Bind(rsrcfork_stream_unpack(o, STRUCT_RESOURCE_REFERENCE_size), LAMBDA e :
           IF e.o.exc # "none" THEN e.o
           ELSE rsrcfork_refs_loop(
                    [e.o EXCEPT !._references[ti].val =
                         OD_Set(@, I16(e.ret, 1),
                                [name_offset |-> U16(e.ret, 3), attributes |-> e.ret[5],
                                 data_offset |-> (e.ret[6] * 256 + e.ret[7]) * 256 + e.ret[8]])],
                    ti, n - 1))

\* ResourceFile._read_all_references: the outer for loop, from type number ti on
RECURSIVE rsrcfork_all_refs_loop(_, _)
rsrcfork_all_refs_loop(o, ti) ==
    IF ti > Len(o._reference_counts) \/ o.exc # "none" THEN o
    ELSE rsrcfork_all_refs_loop(
             rsrcfork_refs_loop(
                 [o EXCEPT !._references =
                      Append(@, [key |-> o._reference_counts[ti].key, val |-> <<>>])],
                 ti, o._reference_counts[ti].val),
             ti + 1)

\* ResourceFile._read_all_references
rsrcfork_read_all_references(o) ==
    rsrcfork_all_refs_loop([o EXCEPT !._references = <<>>], 1)

\* ResourceFile._read_all_resource_names
RECURSIVE rsrcfork_read_all_resource_names(_)
rsrcfork_read_all_resource_names(o) ==
    IF ~(rsrcfork_tell(o) < o.map_offset + o.map_length) THEN o
    ELSE Bind(rsrcfork_tell(o), LAMBDA initial_pos :
           Bind(rsrcfork_stream_unpack(o, STRUCT_RESOURCE_NAME_HEADER_size), LAMBDA h :
             IF h.o.exc # "none" THEN h.o
             ELSE Bind(rsrcfork_read(h.o, h.ret[1]), LAMBDA b :
                    rsrcfork_read_all_resource_names(
                        [b.o EXCEPT !._resource_names = OD_Set(@, initial_pos, b.ret)]))))

\* What ResourceFile[restype][key] gives: [o, ret, exc] with ret the
\* attributes of the Resource
NoResource == [name |-> NoneBytes, attributes |-> 0, data |-> <<>>]

\* self._resfile._stream.seek(offset), then a length field of size bytes and
\* as many bytes as it says: [o, ret]
rsrcfork_seek_and_read(o, offset, size) ==
    Bind(rsrcfork_stream_unpack([o EXCEPT !.stream.pos = offset], size), LAMBDA h :
        IF h.o.exc # "none" THEN h
        ELSE rsrcfork_read(h.o, IF size = 1 THEN h.ret[1] ELSE U32(h.ret, 1)))

\* a dictionary read d[key]: [ret, exc]
rsrcfork_lookup(d, key) ==
    IF OD_Index(d, key) = 0 THEN [ret |-> <<>>, exc |-> "KeyError"]
    ELSE [ret |-> d[OD_Index(d, key)].val, exc |-> "none"]

\* ResourceFile._LazyResourceMap.__getitem__, for the type number ti of
\* _references and the ID key
rsrcfork_getitem(o, ti, key) ==
    LET entry == o._references[ti].val[OD_Index(o._references[ti].val, key)].val
        failed(oo, exc) == [o |-> [oo EXCEPT !.exc = "none"], ret |-> NoResource, exc |-> exc]
        with_data(oo, name) ==
            IF oo._allow_seek
            THEN Bind(rsrcfork_seek_and_read(oo, oo.data_offset + entry.data_offset,
                                             STRUCT_RESOURCE_DATA_HEADER_size), LAMBDA r :
                   IF r.o.exc # "none" THEN failed(r.o, r.o.exc)
                   ELSE [o |-> r.o, exc |-> "none",
                         ret |-> [name |-> name, attributes |-> entry.attributes,
                                  data |-> r.ret]])
            ELSE Bind(rsrcfork_lookup(oo._resource_data, entry.data_offset), LAMBDA r :
                   IF r.exc # "none" THEN failed(oo, r.exc)
                   ELSE [o |-> oo, exc |-> "none",
                         ret |-> [name |-> name, attributes |-> entry.attributes,
                                  data |-> r.ret]])
    IN IF OD_Index(o._references[ti].val, key) = 0 THEN failed(o, "KeyError")
       ELSE IF entry.name_offset = NAME_OFFSET_NONE THEN with_data(o, NoneBytes)
       ELSE IF o._allow_seek
       THEN Bind(rsrcfork_seek_and_read(
                     o, o.map_offset + o.map_name_list_offset + entry.name_offset,
                     STRUCT_RESOURCE_NAME_HEADER_size), LAMBDA r :
              IF r.o.exc # "none" THEN failed(r.o, r.o.exc)
              ELSE with_data(r.o, SomeBytes(r.ret)))
       ELSE Bind(rsrcfork_lookup(o._resource_names, entry.name_offset), LAMBDA r :
              IF r.exc # "none" THEN failed(o, r.exc)
              ELSE with_data(o, SomeBytes(r.ret)))

(***************************************************************************)
(* One ResourceFile of rsrcfork.py over a stream, with seeking and         *)
(* without.  run is [fn, o, got]: the object and what the last             *)
(* ResourceFile[restype][key] gave, [ti, key, ret, exc].                   *)
(***************************************************************************)
NoGot == [ti |-> 0, key |-> 0, ret |-> NoResource, exc |-> "none"]

InitRsrcfork ==
    /\ objs = <<>>
    /\ last = <<>>
    /\ streams = NoStreams
    /\ run \in {[fn |-> "rsrcfork.ResourceFile", o |-> rsrcfork_ResourceFile(Image(l), s),
                 got |-> NoGot] : l \in Layouts, s \in BOOLEAN}

\* a statement of _init_seeking or _init_streaming has left the object o
RsrcforkStep(from, to, o) ==
    /\ run.fn = "rsrcfork.ResourceFile" /\ run.o.pc = from
    /\ run' = [run EXCEPT !.o = [o EXCEPT !.pc = IF o.exc # "none" THEN "Failed" ELSE to]]
    /\ UNCHANGED <<objs, last, streams>>

RsrcforkReadHeader == RsrcforkStep("Fresh", "Header", rsrcfork_read_header(run.o))

\* _init_streaming: self._read_all_resource_data() and the assert after it
RsrcforkReadAllResourceData ==
    /\ ~run.o._allow_seek
    /\ RsrcforkStep("Header", "Data",
           Bind(rsrcfork_read_all_resource_data(run.o), LAMBDA o :
               IF o.exc # "none" THEN o
               ELSE rsrcfork_assert(o, rsrcfork_tell(o) = o.map_offset)))

\* _init_seeking: self._stream.seek(self.map_offset); self._read_map_header().
\* _init_streaming: self._read_map_header() and the assert after it
RsrcforkReadMapHeader ==
    IF run.o._allow_seek
    THEN RsrcforkStep("Header", "MapHeader",
             rsrcfork_read_map_header([run.o EXCEPT !.stream.pos = run.o.map_offset]))
    ELSE RsrcforkStep("Data", "MapHeader",
             Bind(rsrcfork_read_map_header(run.o), LAMBDA o :
                 IF o.exc # "none" THEN o
                 ELSE rsrcfork_assert(o, rsrcfork_tell(o)
                                             = o.map_offset + o.map_type_list_offset)))

RsrcforkReadAllResourceTypes ==
    RsrcforkStep("MapHeader", "Types", rsrcfork_read_all_resource_types(run.o))

\* self._read_all_references(); with seeking __init__ returns, without it
\* the assert comes
RsrcforkReadAllReferences ==
    IF run.o._allow_seek
    THEN RsrcforkStep("Types", "Ready", rsrcfork_read_all_references(run.o))
    ELSE RsrcforkStep("Types", "References",
             Bind(rsrcfork_read_all_references(run.o), LAMBDA o :
                 IF o.exc # "none" THEN o
                 ELSE rsrcfork_assert(o, rsrcfork_tell(o)
                                             = o.map_offset + o.map_name_list_offset)))

RsrcforkReadAllResourceNames ==
    /\ ~run.o._allow_seek
    /\ RsrcforkStep("References", "Ready", rsrcfork_read_all_resource_names(run.o))

\* ResourceFile[restype][key] for the type number ti and the ID number ki of it
RsrcforkGetItem(ti, ki) ==
    /\ run.fn = "rsrcfork.ResourceFile" /\ run.o.pc = "Ready"
    /\ ti <= Len(run.o._references) /\ ki <= Len(run.o._references[ti].val)
    /\ Bind(run.o._references[ti].val[ki].key, LAMBDA key :
         Bind(rsrcfork_getitem(run.o, ti, key), LAMBDA r :
           run' = [run EXCEPT !.o = r.o,
                              !.got = [ti |-> ti, key |-> key, ret |-> r.ret, exc |-> r.exc]]))
    /\ UNCHANGED <<objs, last, streams>>

NextRsrcfork ==
    \/ RsrcforkReadHeader
    \/ RsrcforkReadAllResourceData
    \/ RsrcforkReadMapHeader
    \/ RsrcforkReadAllResourceTypes
    \/ RsrcforkReadAllReferences
    \/ RsrcforkReadAllResourceNames
    \/ \E p \in Places : RsrcforkGetItem(p[1], p[2])

SpecRsrcfork == InitRsrcfork /\ [][NextRsrcfork]_vars

(***************************************************************************)
(* Properties.                                                             *)
(***************************************************************************)
Opened(o) == o.pc \in {"Ready", "Closed"}

Done(o) == o.pc \in {"Ready", "Closed", "Failed"}

\* the attributes of every resource, in enumeration order
AllAttributes(o) ==
    [ti \in 1..Len(o.references) |->
        [ri \in 1..Len(o.references[ti].val) |-> o.references[ti].val[ri].val.attributes]]

\* C1: a ResourceFile over a seekable stream and one over a stream that is
\* not seekable, both yielding the same bytes, give the same result: both
\* fail to open, or both open and expose the same ordered type codes, the
\* same ordered IDs per type, the same attributes, and every property read
\* from the same resource of both returns the same value or fails alike.
C1_SeekableEquivalence ==
    (Done(objs[1]) /\ Done(objs[2])) =>
        /\ Opened(objs[1]) <=> Opened(objs[2])
        /\ Opened(objs[1]) =>
            /\ ResourceFile_iter(objs[1]) = ResourceFile_iter(objs[2])
            /\ \A ti \in 1..ResourceFile_len(objs[1]) :
                   LazyResourceMap_iter(objs[1], ti) = LazyResourceMap_iter(objs[2], ti)
            /\ AllAttributes(objs[1]) = AllAttributes(objs[2])
            /\ last[1] = last[2]

\* both files have returned the decompressed data of a compressed resource
C1_Witness ==
    /\ Len(objs) = 2
    /\ \A f \in {1, 2} :
        /\ last[f].op = "data" /\ last[f].exc = "none"
        /\ Res(objs[f], last[f].ti, last[f].ri).attributes % 2 = resCompressed
        /\ last[f].ret.bytes # <<>>
    /\ objs[1].wrapped # objs[2].wrapped

CompressedImages == {Image(l) : l \in CompressedLayouts}

IsCompressed(o, ti, ri) == Res(o, ti, ri).attributes % 2 = resCompressed

\* C2: decompression errors are raised lazily.  A container holding a
\* resource with the compressed attribute, whatever its payload and
\* compression type, opens; reading that resource's data fails, if it
\* fails, with DecompressError; its data_raw and length_raw and the data of
\* every resource without the compressed attribute are read without error,
\* before and after such a failure.
C2_LazyDecompressError ==
    LET o == objs[1]
        l == last[1]
    IN /\ o.src.data \in CompressedImages => o.pc \notin {"Aborting", "Failed"}
       /\ (l.op = "data" /\ l.exc # "none" /\ IsCompressed(o, l.ti, l.ri))
              => l.exc = "DecompressError"
       /\ (o.src.data \in CompressedImages /\ l.op \in {"data_raw", "length_raw"})
              => l.exc = "none"
       /\ (o.src.data \in CompressedImages /\ l.op = "data" /\ ~IsCompressed(o, l.ti, l.ri))
              => l.exc = "none"

\* the same, but for the kind of the exception that data raises
C2_LazyAnyError ==
    LET o == objs[1]
        l == last[1]
    IN /\ o.src.data \in CompressedImages => o.pc \notin {"Aborting", "Failed"}
       /\ (l.op = "data" /\ l.exc # "none" /\ IsCompressed(o, l.ti, l.ri))
              => l.exc \in {"DecompressError", "IndexError"}
       /\ (o.src.data \in CompressedImages /\ l.op \in {"data_raw", "length_raw"})
              => l.exc = "none"
       /\ (o.src.data \in CompressedImages /\ l.op = "data" /\ ~IsCompressed(o, l.ti, l.ri))
              => l.exc = "none"

\* the bytes of the data block of a resource, as they lie in the file
RawBlock(o, ti, ri) ==
    LET at == o.data_offset + Res(o, ti, ri).data_raw_offset
        n == U32(o.src.data, at + 1)
    IN SubSeq(o.src.data, at + STRUCT_RESOURCE_DATA_HEADER_size + 1,
              at + STRUCT_RESOURCE_DATA_HEADER_size + n)

\* the decompressed length field of a compressed block
DeclaredLength(block) == U32(block, 9)

\* what the codec yields for the payload that follows the header of a block
CodecRun(block) ==
    dcmp1_decompress_stream(parse_header(SubSeq(block, 1, STRUCT_COMPRESSED_HEADER_size)).ret,
                            BytesIO(SubSeq(block, STRUCT_COMPRESSED_HEADER_size + 1,
                                           Len(block))))

Cached(res) ==
    [name |-> IF res.has_name THEN <<res.name>> ELSE <<>>,
     length_raw |-> IF res.has_length_raw THEN <<res.length_raw>> ELSE <<>>,
     data_raw |-> IF res.has_data_raw THEN <<res.data_raw>> ELSE <<>>,
     compressed_info |-> IF res.has_compressed_info THEN <<res.compressed_info>> ELSE <<>>,
     data |-> IF res.has_data_decompressed THEN <<res.data_decompressed>> ELSE <<>>]

\* the value a property returns from the cache: <<v>>, or <<>> when it is not cached
CachedValue(res, op) ==
    CASE op = "name" -> IF res.has_name THEN <<RetOpt(res.name)>> ELSE <<>>
      [] op = "length_raw" -> IF res.has_length_raw THEN <<RetInt(res.length_raw)>> ELSE <<>>
      [] op = "data_raw" -> IF res.has_data_raw THEN <<RetBytes(res.data_raw)>> ELSE <<>>
      [] op = "compressed_info" ->
            IF res.attributes % 2 # resCompressed THEN <<RetNone>>
            ELSE IF res.has_compressed_info THEN <<RetInfo(res.compressed_info)>> ELSE <<>>
      [] op = "data" ->
            IF res.attributes % 2 # resCompressed
            THEN (IF res.has_data_raw THEN <<RetBytes(res.data_raw)>> ELSE <<>>)
            ELSE IF res.has_compressed_info /\ res.has_data_decompressed
            THEN <<RetBytes(res.data_decompressed)>> ELSE <<>>
      [] OTHER -> <<>>

\* a step in which a property of the resource at last'[1].ti, last'[1].ri was read
PropertyRead ==
    /\ objs[1].pc = "Ready" /\ objs'[1].pc = "Ready"
    /\ last'[1].op \in {"name", "length_raw", "data_raw", "compressed_info", "data"}
    /\ <<objs, last>>' # <<objs, last>>

\* C5: name, length_raw, data_raw, compressed_info and data are computed at
\* the first successful access and cached: an access that succeeds leaves
\* the value cached, an access to a cached value returns it without a call
\* on the stream, a cached value never changes, and no access changes the
\* bytes of the stream.
C5_Memoized ==
    [][PropertyRead =>
        LET o == objs[1]
            p == objs'[1]
            l == last'[1]
        IN /\ CachedValue(Res(o, l.ti, l.ri), l.op) # <<>> =>
                /\ l.ret = CachedValue(Res(o, l.ti, l.ri), l.op)[1]
                /\ l.exc = "none"
                /\ p.io = 0
                /\ SelfStream(p) = SelfStream(o)
           /\ l.exc = "none" => CachedValue(Res(p, l.ti, l.ri), l.op) = <<l.ret>>
           /\ \A ti \in 1..Len(o.references) : \A ri \in 1..Len(o.references[ti].val) :
                \A k \in {"name", "length_raw", "data_raw", "compressed_info", "data"} :
                    Cached(Res(o, ti, ri))[k] # <<>>
                        => Cached(Res(p, ti, ri))[k] = Cached(Res(o, ti, ri))[k]
           /\ p.src.data = o.src.data /\ p.mem.data = o.mem.data
           /\ p.src.closed = o.src.closed /\ p.mem.closed = o.mem.closed
    ]_vars

\* the data of a compressed resource has been returned without a call on the
\* stream: it came from the cache
C5_Witness ==
    /\ objs[1].pc = "Ready"
    /\ last[1].op = "data" /\ last[1].exc = "none"
    /\ IsCompressed(objs[1], last[1].ti, last[1].ri)
    /\ last[1].ret.bytes # <<>>
    /\ objs[1].io = 0

(***************************************************************************)
(* The resource map as it lies in the bytes of a file, read at the offsets *)
(* the format gives.                                                       *)
(***************************************************************************)
DiskMapOffset(img) == U32(img, 5)

\* the offset of the type list: the map header is followed by it
DiskTypeListAt(img) == DiskMapOffset(img) + STRUCT_RESOURCE_MAP_HEADER_size

DiskTypeListField(img) == U16(img, DiskTypeListAt(img) + 1)

DiskTypeCount(img) == (DiskTypeListField(img) + 1) % 65536

DiskType(img, i) ==
    LET at == DiskTypeListAt(img) + STRUCT_RESOURCE_TYPE_LIST_HEADER_size
                  + STRUCT_RESOURCE_TYPE_size * (i - 1)
    IN [code |-> SubSeq(img, at + 1, at + 4), count_m1 |-> U16(img, at + 5),
        reflist_offset |-> U16(img, at + 7)]

DiskCodeSet(img) == {DiskType(img, i).code : i \in 1..DiskTypeCount(img)}

\* the first and the last entry of the type list with a code
DiskFirst(img, code) ==
    CHOOSE i \in 1..DiskTypeCount(img) :
        /\ DiskType(img, i).code = code
        /\ \A j \in 1..(i - 1) : DiskType(img, j).code # code

DiskLast(img, code) ==
    CHOOSE i \in 1..DiskTypeCount(img) :
        /\ DiskType(img, i).code = code
        /\ \A j \in (i + 1)..DiskTypeCount(img) : DiskType(img, j).code # code

\* the reference entry at an offset of the file
DiskRef(img, at) ==
    [id |-> I16(img, at + 1), name_offset |-> U16(img, at + 3), attributes |-> img[at + 5]]

\* the IDs of the n reference entries stored from an offset on
DiskIDs(img, at, n) ==
    [k \in 1..n |-> DiskRef(img, at + STRUCT_RESOURCE_REFERENCE_size * (k - 1)).id]

\* where the reference entries of type number ti of o were read: after the
\* type list and the entries of the types before it
ReadRefsAt(o, ti) ==
    LET RECURSIVE before(_)
        before(j) == IF j = 0 THEN 0 ELSE o.reference_counts[j].val + before(j - 1)
    IN DiskTypeListAt(o.src.data) + STRUCT_RESOURCE_TYPE_LIST_HEADER_size
           + STRUCT_RESOURCE_TYPE_size * DiskTypeCount(o.src.data)
           + STRUCT_RESOURCE_REFERENCE_size * before(ti - 1)

Range(f) == {f[i] : i \in DOMAIN f}

\* the count a type's entry declares, as the claim reads it
DeclaredCount(img, code) == DiskType(img, DiskLast(img, code)).count_m1 + 1

\* C6 as stated: after a successful open, len(container) is the number of
\* distinct type codes of the type list, and the number of resources
\* enumerated under a type is the count its TypeEntry declares: the stored
\* value plus one, from 1 to 65536.
C6_DeclaredCounts ==
    LET o == objs[1]
    IN Opened(o) =>
        /\ ResourceFile_len(o) = Cardinality(DiskCodeSet(o.src.data))
        /\ \A ti \in 1..ResourceFile_len(o) :
               LazyResourceMap_len(o, ti)
                   = DeclaredCount(o.src.data, ResourceFile_iter(o)[ti])

\* C6: after a successful open, len(container) is the number of distinct
\* type codes of the type list; the number of references read for a type is
\* the stored count plus one modulo 65536 of the last TypeEntry with its
\* code, from 0 to 65535, and the number of resources enumerated under the
\* type is the number of distinct IDs among these references.
C6_CountsModulo ==
    LET o == objs[1]
        img == o.src.data
    IN Opened(o) =>
        /\ ResourceFile_len(o) = Cardinality(DiskCodeSet(img))
        /\ Range(ResourceFile_iter(o)) = DiskCodeSet(img)
        /\ \A ti \in 1..ResourceFile_len(o) :
               LET n == DeclaredCount(img, ResourceFile_iter(o)[ti]) % 65536
               IN /\ o.reference_counts[ti].val = n
                  /\ LazyResourceMap_len(o, ti)
                         = Cardinality(Range(DiskIDs(img, ReadRefsAt(o, ti), n)))
                  /\ LazyResourceMap_len(o, ti) <= n

\* a file with a type of two resources has been opened
C6_Witness ==
    /\ objs[1].pc = "Ready"
    /\ ResourceFile_len(objs[1]) = 1
    /\ DiskType(objs[1].src.data, 1).count_m1 = 1
    /\ LazyResourceMap_len(objs[1], 1) = 2

\* the distinct elements of a sequence, in the order of their first occurrence
RECURSIVE FirstOccurrences(_)
FirstOccurrences(s) ==
    IF s = <<>> THEN <<>>
    ELSE LET init == SubSeq(s, 1, Len(s) - 1)
         IN IF s[Len(s)] \in Range(init) THEN FirstOccurrences(init)
            ELSE Append(FirstOccurrences(init), s[Len(s)])

\* the type codes in the order of the type list
DiskCodes(img) == FirstOccurrences([i \in 1..DiskTypeCount(img) |-> DiskType(img, i).code])

\* where the reference list of a type lies: at the offset its TypeEntry
\* declares, counted from the start of the type list
DiskRefsAt(img, code) ==
    DiskTypeListAt(img) + DiskType(img, DiskLast(img, code)).reflist_offset

\* the order of enumeration, with the reference entries of a type taken from where(o, ti)
EnumerationOrder(o, where(_, _)) ==
    /\ ResourceFile_iter(o) = DiskCodes(o.src.data)
    /\ \A ti \in 1..ResourceFile_len(o) :
           LazyResourceMap_iter(o, ti)
               = FirstOccurrences(DiskIDs(o.src.data, where(o, ti), o.reference_counts[ti].val))

DeclaredRefsAt(o, ti) == DiskRefsAt(o.src.data, ResourceFile_iter(o)[ti])

\* C7: iterating a ResourceFile yields the type codes in the order of their
\* entries in the type table, and iterating the resources of a type yields
\* the IDs in the order of the reference entries of that type's reference
\* list, the list at the offset its TypeEntry declares.
C7_OnDiskOrder == Opened(objs[1]) => EnumerationOrder(objs[1], DeclaredRefsAt)

\* The same order with the reference entries taken from where they were read:
\* directly after the type table, one type after the other.
C7_OrderAsRead == Opened(objs[1]) => EnumerationOrder(objs[1], ReadRefsAt)

\* a file whose reference lists are stored in the order opposite to the type table
C7_Swapped ==
    /\ objs[1].pc = "Ready"
    /\ ResourceFile_len(objs[1]) = 2
    /\ DeclaredRefsAt(objs[1], 1) > DeclaredRefsAt(objs[1], 2)

\* where the name of a resource lies in the file: at the map offset plus the
\* offset of the name list plus the name offset of the resource
DiskNameAt(img, name_offset) ==
    DiskMapOffset(img) + U16(img, DiskMapOffset(img) + 27) + name_offset

\* C8: if the stored name offset of a resource is the sentinel 0xFFFF its
\* name is None; otherwise its name is exactly the L bytes after the length
\* byte L at map offset + name list offset + name offset.  A read of name
\* returns nothing else, and fails only when these bytes are not all there.
C8_Name ==
    LET o == objs[1]
        l == last[1]
        img == o.src.data
    IN l.op = "name" =>
        LET name_offset == Res(o, l.ti, l.ri).name_offset
            at == DiskNameAt(img, name_offset)
        IN IF name_offset = 65535 THEN l.exc = "none" /\ l.ret = RetNone
           ELSE IF at + 1 <= Len(img) /\ at + 1 + img[at + 1] <= Len(img)
           THEN /\ l.exc = "none"
                /\ l.ret = RetBytes(SubSeq(img, at + 2, at + 1 + img[at + 1]))
           ELSE l.exc = "InvalidResourceFileError"

\* the name of a resource has been read that is not the first of the name list
C8_Witness ==
    /\ last[1].op = "name"
    /\ last[1].exc = "none"
    /\ Res(objs[1], last[1].ti, last[1].ri).name_offset \notin {0, 65535}
    /\ last[1].ret = RetBytes(PlainB)

\* the name of a resource without a name has been read
C8_NoName ==
    /\ last[1].op = "name"
    /\ Res(objs[1], last[1].ti, last[1].ri).name_offset = 65535
    /\ last[1].ret = RetNone

\* the bytes of a file reach to the count field of the type list, and the
\* header ends where the data starts
ReachesTypeList(img) ==
    /\ Len(img) >= STRUCT_RESOURCE_HEADER_size
    /\ U32(img, 1) = STRUCT_RESOURCE_HEADER_size
    /\ DiskTypeListAt(img) + STRUCT_RESOURCE_TYPE_LIST_HEADER_size <= Len(img)

\* C9: the length of the type list is the stored count plus one modulo
\* 65536: a file whose type list count field is 0xFFFF opens and enumerates
\* no types, and any opened file has read that many type entries.
C9_EmptyTypeList ==
    LET o == objs[1]
        img == o.src.data
    IN /\ (Done(o) /\ ReachesTypeList(img) /\ DiskTypeListField(img) = 65535) =>
              /\ Opened(o)
              /\ ResourceFile_len(o) = 0
              /\ ResourceFile_iter(o) = <<>>
       /\ Opened(o) =>
              ResourceFile_len(o) <= (DiskTypeListField(img) + 1) % 65536

\* a file with the count field 0xFFFF and bytes after the type list is open
C9_Witness ==
    /\ objs[1].pc = "Ready"
    /\ DiskTypeListField(objs[1].src.data) = 65535
    /\ Len(objs[1].src.data) > DiskTypeListAt(objs[1].src.data) + 2
    /\ ResourceFile_iter(objs[1]) = <<>>

\* the header of a file declares a map that ends after the bytes of the file
Truncated(img) ==
    /\ Len(img) >= 16
    /\ \/ U32(img, 13) > Len(img)
       \/ U32(img, 5) + U32(img, 13) > Len(img)

\* C10: a file whose header declares a map length, or a map offset plus map
\* length, beyond the bytes of the file fails to open with
\* InvalidResourceFileError; it never opens.
C10_TruncatedFails ==
    (Done(objs[1]) /\ Truncated(objs[1].src.data)) =>
        /\ objs[1].pc = "Failed"
        /\ objs[1].exc = "InvalidResourceFileError"

\* a truncated file that does not open fails with InvalidResourceFileError
C10_FailureIsFormatError ==
    (objs[1].pc = "Failed" /\ Truncated(objs[1].src.data)) =>
        objs[1].exc = "InvalidResourceFileError"

\* a file cut inside its name list is open and the read of a name has failed
C10_TruncatedOpen ==
    /\ objs[1].pc = "Ready"
    /\ Truncated(objs[1].src.data)
    /\ last[1].op = "name"
    /\ last[1].exc = "InvalidResourceFileError"

\* the bytes from a on, n of them, lie in the section from lo up to hi
InRange(a, n, lo, hi) == lo <= a /\ a + n <= hi

\* the data section as the header declares it: its offset and its end
DiskDataOffset(img) == U32(img, 1)

DiskDataEnd(img) == U32(img, 1) + U32(img, 9)

\* the name list as the headers declare it: from its offset to the end of the map
DiskNameListAt(img) == DiskNameAt(img, 0)

DiskMapEnd(img) == DiskMapOffset(img) + U32(img, 13)

\* what the read of a property of a resource needs lies inside its section
InSection(img, op, res) ==
    LET nat == DiskNameAt(img, res.name_offset)
        dat == DiskDataOffset(img) + res.data_raw_offset
        names(n) == InRange(nat, n, DiskNameListAt(img), DiskMapEnd(img))
        data(n) == InRange(dat, n, DiskDataOffset(img), DiskDataEnd(img))
    IN CASE op = "name" ->
                \/ res.name_offset = 65535
                \/ /\ names(1)
                   /\ nat + 1 <= Len(img)
                   /\ names(1 + img[nat + 1])
         [] op = "length_raw" -> data(STRUCT_RESOURCE_DATA_HEADER_size)
         [] op = "data_raw" ->
                /\ data(STRUCT_RESOURCE_DATA_HEADER_size)
                /\ dat + STRUCT_RESOURCE_DATA_HEADER_size <= Len(img)
                /\ data(STRUCT_RESOURCE_DATA_HEADER_size + U32(img, dat + 1))

\* C11: a read of name, length_raw or data_raw that needs bytes outside the
\* section the headers declare (the name list, the data section) raises
\* InvalidResourceFileError: it raises nothing else and returns nothing.
C11_SectionBounds ==
    LET l == last[1]
    IN l.op \in {"name", "length_raw", "data_raw"} =>
           (~InSection(objs[1].src.data, l.op, Res(objs[1], l.ti, l.ri)) =>
                l.exc = "InvalidResourceFileError")

\* a read that needs bytes outside its section raises ValueError
C11_ValueError ==
    /\ last[1].op = "data_raw"
    /\ ~InSection(objs[1].src.data, "data_raw", Res(objs[1], last[1].ti, last[1].ri))
    /\ last[1].exc = "ValueError"

\* a read returns bytes that lie outside the section
C11_BytesOutside ==
    /\ last[1].op \in {"length_raw", "data_raw"}
    /\ ~InSection(objs[1].src.data, last[1].op, Res(objs[1], last[1].ti, last[1].ri))
    /\ last[1].exc = "none"

\* A read that raises, raises InvalidResourceFileError or ValueError, and a
\* read that returns bytes returns bytes of the file.
C11_FileBounds ==
    LET l == last[1]
    IN l.op \in {"name", "length_raw", "data_raw"} =>
           l.exc \in {"none", "InvalidResourceFileError", "ValueError"}

\* C12: a file whose header declares a data offset other than the position
\* after the header, 256, fails to open with InvalidResourceFileError; the
\* data offset of every opened file is that position.
C12_DataOffset ==
    LET o == objs[1]
        img == o.src.data
    IN /\ (Done(o) /\ Len(img) >= STRUCT_RESOURCE_HEADER_size
              /\ DiskDataOffset(img) # STRUCT_RESOURCE_HEADER_size) =>
               (o.pc = "Failed" /\ o.exc = "InvalidResourceFileError")
       /\ Opened(o) =>
               /\ DiskDataOffset(img) = STRUCT_RESOURCE_HEADER_size
               /\ o.data_offset = STRUCT_RESOURCE_HEADER_size

\* the open of a file with a whole header and the data offset 257 has failed
C12_Witness ==
    /\ objs[1].pc = "Failed"
    /\ Len(objs[1].src.data) > STRUCT_RESOURCE_HEADER_size
    /\ DiskDataOffset(objs[1].src.data) = STRUCT_RESOURCE_HEADER_size + 1
    /\ objs[1].exc = "InvalidResourceFileError"

\* C13: every stream returned by open_raw() or open() returns, at every
\* call, the bytes and the position it returns when it is the only user of
\* the underlying stream, whatever calls on other streams and whatever
\* property reads come in between.
C13_NoInterference ==
    \A k \in 1..Len(streams.open) :
        LET h == streams.open[k]
        IN /\ h.shared.ret = h.solo.ret
           /\ h.shared.exc = h.solo.exc
           /\ h.shared.pos = h.solo.pos
           /\ h.shared.ss = h.solo.ss
           /\ h.shared.s = h.solo.s

\* a stream has returned bytes from a read that found the underlying stream
\* at the place of another stream
C13_Witness ==
    /\ Len(streams.open) >= 2
    /\ \E k \in 1..Len(streams.open) :
           /\ streams.open[k].shared.kind = "SubStream"
           /\ streams.open[k].shared.elsewhere
           /\ streams.open[k].shared.ret # <<>>

\* a header that parse_stream accepts, by the claim
Acceptable(b) ==
    /\ Len(b) >= 18
    /\ SubSeq(b, 1, 4) = <<168, 159, 101, 114>>
    /\ U16(b, 5) \in {18, 0}
    /\ \/ U16(b, 7) = 2049 /\ b[17] = 0 /\ b[18] = 0
       \/ U16(b, 7) = 2305

\* C14: parse_stream accepts a header exactly when 18 bytes are there, the
\* signature is A8 9F 65 72, the header length is 0x12 or 0 and the
\* compression type is 0x0801 with the reserved field zero, or 0x0901; it
\* then returns the Type 8 or the Type 9 variant with the declared
\* decompressed length and 'dcmp' ID; on any other input it raises
\* DecompressError.
C14_ParseStream ==
    (run.fn = "parse_stream" /\ run.stage = "returned") =>
        LET b == run.input
        IN IF Acceptable(b)
           THEN /\ run.d.exc = "none"
                /\ run.info.variant = (IF U16(b, 7) = 2049 THEN "Type8" ELSE "Type9")
                /\ run.info.header_length = U16(b, 5)
                /\ run.info.compression_type = U16(b, 7)
                /\ run.info.decompressed_length = U32(b, 9)
                /\ run.info.dcmp_id = (IF U16(b, 7) = 2049 THEN I16(b, 15) ELSE I16(b, 13))
                /\ run.d.c.pos = 18
           ELSE run.d.exc = "DecompressError" /\ run.info = NoInfo

\* a Type 9 header with the header length 0 has been accepted
C14_Witness ==
    /\ run.fn = "parse_stream" /\ run.stage = "returned"
    /\ run.d.exc = "none"
    /\ run.info.variant = "Type9"
    /\ run.info.header_length = 0
    /\ run.info.decompressed_length = 16777217

\* the offsets, counted from the position from, at which the whole entries
\* of a list begin that lies from the position at up to end; an entry is a
\* length field of size bytes and as many bytes as it says
RECURSIVE EntryStarts(_, _, _, _, _)
EntryStarts(img, from, at, end, size) ==
    IF at + size > Min(end, Len(img)) THEN {}
    ELSE Bind(IF size = 1 THEN img[at + 1] ELSE U32(img, at + 1), LAMBDA length :
           IF at + size + length > Min(end, Len(img)) THEN {}
           ELSE {at - from} \cup EntryStarts(img, from, at + size + length, end, size))

BlockStarts(img) ==
    EntryStarts(img, DiskDataOffset(img), DiskDataOffset(img), DiskDataEnd(img),
                STRUCT_RESOURCE_DATA_HEADER_size)

NameStarts(img) ==
    EntryStarts(img, DiskNameListAt(img), DiskNameListAt(img), DiskMapEnd(img),
                STRUCT_RESOURCE_NAME_HEADER_size)

\* the reference entry of the resource looked up last
Looked(r) ==
    LET submap == r.o._references[r.got.ti].val
    IN submap[OD_Index(submap, r.got.key)].val

\* a block starts at the data offset of the resource looked up last, and a
\* name at its name offset unless that is the sentinel
WellPlaced(r) ==
    /\ Looked(r).data_offset \in BlockStarts(r.o.stream.data)
    /\ Looked(r).name_offset # NAME_OFFSET_NONE =>
           Looked(r).name_offset \in NameStarts(r.o.stream.data)

\* the lookup gave the block and the name that start at the offsets stored
FoundAsStored(r) ==
    LET img == r.o.stream.data
        data_at == DiskDataOffset(img) + Looked(r).data_offset
        name_at == DiskNameAt(img, Looked(r).name_offset)
    IN /\ r.got.exc = "none"
       /\ r.got.ret.data = SubSeq(img, data_at + 5, data_at + 4 + U32(img, data_at + 1))
       /\ r.got.ret.name = IF Looked(r).name_offset = NAME_OFFSET_NONE THEN NoneBytes
                           ELSE SomeBytes(SubSeq(img, name_at + 2, name_at + 1 + img[name_at + 1]))

\* C15: in the single-pass streaming reader (seeking disabled) every
\* DataBlock and every Name is stored under a key such that, for every
\* resource, the lookup by its stored data offset finds exactly the block
\* that starts at that offset in the data section, and the lookup by its
\* name offset, unless that is the sentinel, finds exactly the name that
\* starts at that offset in the name list.
C15_StreamingLookup ==
    (run.fn = "rsrcfork.ResourceFile" /\ ~run.o._allow_seek /\ run.got.ti # 0) =>
        (WellPlaced(run) => FoundAsStored(run))

\* the lookup of a well placed resource has raised KeyError
C15_KeyError ==
    /\ run.fn = "rsrcfork.ResourceFile" /\ ~run.o._allow_seek /\ run.got.ti # 0
    /\ WellPlaced(run)
    /\ run.got.exc = "KeyError"

\* With seeking the lookup gives the block and the name at the offsets stored.
C15_SeekingLookup ==
    (run.fn = "rsrcfork.ResourceFile" /\ run.o._allow_seek /\ run.got.ti # 0) =>
        (WellPlaced(run) => FoundAsStored(run))

\* Without seeking every block and every name is stored under the position
\* in the stream at which it starts.
C15_KeysArePositions ==
    (run.fn = "rsrcfork.ResourceFile" /\ ~run.o._allow_seek /\ run.o.pc = "Ready") =>
        LET img == run.o.stream.data
        IN /\ {e.key : e \in Range(run.o._resource_data)}
                  = {DiskDataOffset(img) + s : s \in BlockStarts(img)}
           /\ {e.key : e \in Range(run.o._resource_names)}
                  = {DiskNameListAt(img) + s : s \in NameStarts(img)}

\* a call of decompress_stream of 'dcmp' (0) or (1), decoded pass by pass
Decoding(r) ==
    /\ r.fn \in {"dcmp0.decompress_stream", "dcmp1.decompress_stream"}
    /\ r.header_info.variant = "Type8"

\* the byte number i of the stream c counted from its position, -1 past the end
ByteAhead(c, i) == IF c.pos + i <= Len(c.data) THEN c.data[c.pos + i] ELSE -1

\* what decompress_stream_inner of 'dcmp' (0) yields for the data of the call r
Naive(r) == dcmp0_decompress_stream_inner(r.header_info, BytesIO(r.input)).out

\* C16: for dcmp0 the chunks emitted, joined, are the naive output, except
\* that the final byte of the naive output is dropped when the declared
\* length is odd and the naive output is one byte longer than declared; no
\* other byte is dropped and nothing is dropped in any other case.
C16_OddLengthDrop ==
    (run.fn = "dcmp0.decompress_stream" /\ run.stage = "returned" /\ run.d.exc = "none") =>
        LET naive == run.d.out
            declared == run.header_info.decompressed_length
        IN Flatten(run.w.chunks) =
               IF declared % 2 # 0 /\ Len(naive) = declared + 1
               THEN SubSeq(naive, 1, Len(naive) - 1)
               ELSE naive

\* a byte inside the naive output was dropped: the naive output is more
\* than one byte longer than declared, and what was emitted is not its start
C16_DroppedInside ==
    /\ run.fn = "dcmp0.decompress_stream" /\ run.stage = "returned" /\ run.d.exc = "none"
    /\ Len(run.d.out) > run.header_info.decompressed_length + 1
    /\ Flatten(run.w.chunks) # Prefix(run.d.out, Len(Flatten(run.w.chunks)))

\* decompress_stream_parsed accepted data whose naive output is two bytes
\* longer than declared
C16_AcceptedShort ==
    /\ run.fn = "decompress_stream_parsed" /\ run.header_info.dcmp_id = 0
    /\ run.stage = "returned" /\ run.d.exc = "none"
    /\ Len(Naive(run)) = run.header_info.decompressed_length + 2
    /\ run.d.out # Prefix(Naive(run), Len(run.d.out))

\* With an even declared length nothing is dropped, and what is emitted is
\* never longer than the naive output nor shorter by more than the number
\* of chunks.
C16_EvenUntouched ==
    (run.fn = "dcmp0.decompress_stream" /\ run.stage = "returned") =>
        /\ run.header_info.decompressed_length % 2 = 0 => Flatten(run.w.chunks) = run.d.out
        /\ Len(run.d.out) - Len(Flatten(run.w.chunks)) \in 0..Len(run.d.chunks)

\* one pass of a decoder that starts at the tag 0xff
C17_Step ==
    (Decoding(run) /\ run.stage # "returned") =>
        LET c == run.d.c
            last_byte == c.pos + 1 = Len(c.data)
        IN /\ ByteAhead(c, 1) = 255 =>
                  /\ run'.stage = "returned"
                  /\ run'.d.out = run.d.out /\ run'.w = run.w
                  /\ run'.d.exc = (IF last_byte THEN "none" ELSE "DecompressError")
           /\ (run'.stage = "returned" /\ run'.d.exc = "none") =>
                  (ByteAhead(c, 1) = 255 /\ last_byte)

\* C17: in dcmp0 and dcmp1 decoding completes successfully only by reading
\* the tag 0xFF as the very last byte of the compressed stream; a tag 0xFF
\* followed by at least one more byte fails with DecompressError, and no
\* output is produced after the end marker.
C17_EndMarker == [][C17_Step]_vars

\* a decoder has failed on the byte after the end marker, after a literal
C17_Witness ==
    /\ Decoding(run) /\ run.stage = "returned"
    /\ run.d.exc = "DecompressError"
    /\ run.d.c.pos = Len(run.input)
    /\ Len(run.input) > 2 /\ run.input[Len(run.input) - 1] = 255
    /\ run.d.out # <<>>

\* the index of the backreference that starts at the position of the
\* stream c, -1 if no whole backreference starts there
BackreferenceIndex(fn, c) ==
    LET tag == ByteAhead(c, 1)
    IN IF fn = "dcmp0.decompress_stream"
       THEN (IF tag \in 35..74 THEN tag - 35
             ELSE IF tag \in {32, 33} /\ ByteAhead(c, 2) >= 0
             THEN 40 + ((tag - 32) * 256 + ByteAhead(c, 2))
             ELSE IF tag = 34 /\ ByteAhead(c, 3) >= 0
             THEN 40 + (ByteAhead(c, 2) * 256 + ByteAhead(c, 3))
             ELSE -1)
       ELSE (IF tag \in 32..207 THEN tag - 32
             ELSE IF tag = 210 /\ ByteAhead(c, 2) >= 0 THEN 176 + ByteAhead(c, 2)
             ELSE -1)

\* one pass of a decoder that starts at a backreference past the stored literals
C18_Step ==
    (/\ Decoding(run) /\ run.stage # "returned"
     /\ BackreferenceIndex(run.fn, run.d.c) >= Len(run.d.prev_literals)) =>
        (run'.stage = "returned" /\ run'.d.exc = "DecompressError")

\* 'dcmp' (2) data with a custom table and a reference past its entries:
\* any byte after the table when the data is not tagged and the declared
\* length is even, the byte after the first tag when that tag starts with
\* a reference
Dcmp2BadReference(r) ==
    LET table_count == r.header_info.parameters[3] + 1
        at == 2 * table_count
        flags_raw == r.header_info.parameters[4]
    IN /\ r.header_info.variant = "Type9" /\ r.header_info.dcmp_id = 2
       /\ flags_raw \in {1, 3}
       /\ IF flags_raw = 1
          THEN /\ r.header_info.decompressed_length % 2 = 0
               /\ \E i \in (at + 1)..Len(r.input) : r.input[i] >= table_count
          ELSE /\ Len(r.input) >= at + 3
               /\ r.input[at + 1] >= 128 /\ r.input[at + 2] >= table_count

\* C18: a backreference whose index is not smaller than the number of
\* literals stored so far (dcmp0, dcmp1), or a dcmp2 table reference whose
\* index is not smaller than the number of entries of the table in use,
\* ends decoding with a DecompressError and with no other exception.
C18_BadReference ==
    /\ [][C18_Step]_vars
    /\ []((run.fn = "decompress_stream_parsed" /\ run.stage = "returned"
             /\ Dcmp2BadReference(run)) => run.d.exc = "DecompressError")

\* a backreference past the stored literals of dcmp0 or dcmp1 has raised IndexError
C18_IndexError ==
    /\ Decoding(run) /\ run.stage = "returned"
    /\ run.d.exc = "IndexError"
    /\ run.d.prev_literals # <<>>

\* a table reference past a custom table of dcmp2 has raised IndexError
C18_IndexErrorDcmp2 ==
    /\ run.fn = "decompress_stream_parsed" /\ run.stage = "returned"
    /\ Dcmp2BadReference(run)
    /\ run.d.exc = "IndexError"

\* A codec ends with no exception, DecompressError, IndexError, or, for
\* dcmp0, OverflowError or AssertionError.
C18_Exceptions ==
    (run.fn \in {"dcmp0.decompress_stream", "dcmp1.decompress_stream",
                 "decompress_stream_parsed"}) =>
        run.d.exc \in {"none", "DecompressError", "IndexError"}
                      \cup (IF run.header_info.dcmp_id = 0
                            THEN {"OverflowError", "AssertionError"} ELSE {})

\* tags that carry the store flag
StoreTag(fn, tag) == tag \in 16..31 \/ (fn = "dcmp1.decompress_stream" /\ tag = 209)

\* one pass of a decoder and the stored literals
C19_Step ==
    (Decoding(run) /\ run.stage # "returned") =>
        LET prev == run.d.prev_literals
            after == run'.d.prev_literals
            chunks == run'.d.chunks
            k == BackreferenceIndex(run.fn, run.d.c)
            stored == StoreTag(run.fn, ByteAhead(run.d.c, 1)) /\ run'.d.exc = "none"
        IN /\ Len(after) >= Len(prev) /\ SubSeq(after, 1, Len(prev)) = prev
           /\ stored => /\ Len(chunks) = Len(run.d.chunks) + 1
                        /\ after = Append(prev, chunks[Len(chunks)])
           /\ ~stored => after = prev
           /\ (k >= 0 /\ k < Len(prev)) =>
                  /\ run'.d.exc = "none"
                  /\ chunks = Append(run.d.chunks, prev[k + 1])
                  /\ after = prev

\* C19: in dcmp0 and dcmp1 the backreference table is append-only: a
\* literal is appended exactly when its tag carries the store flag (tags
\* 0x10-0x1F, and 0xD1 in dcmp1), it gets the next index counting from 0,
\* existing entries never change, and a backreference with computed index
\* k emits exactly the k-th stored literal and adds no entry.
C19_AppendOnly == [][C19_Step]_vars

\* tag 0x20 with the next byte 0 has emitted the literal stored as number 40
C19_Witness ==
    /\ run.fn = "dcmp0.decompress_stream" /\ run.stage = "running"
    /\ Len(run.d.prev_literals) = 41
    /\ run.d.c.pos > 2 /\ run.d.c.data[run.d.c.pos - 1] = 32
    /\ Len(run.d.chunks) = 42
    /\ run.d.chunks[42] = <<65, 66>> /\ run.d.prev_literals[41] = <<65, 66>>

\* the value of the 4 bytes of b from index i on as a signed 32-bit integer
Signed32(b, i) ==
    IF b[i] < 128 THEN U32(b, i)
    ELSE -((255 - b[i]) * 16777216 + (255 - b[i + 1]) * 65536
               + (255 - b[i + 2]) * 256 + (255 - b[i + 3])) - 1

\* C20: read_variable_length_integer reads 1, 2 or 5 bytes: a first byte up
\* to 0x7F is the value; a first byte b0 from 0x80 to 0xFE with the next
\* byte b1 gives (b0 - 0xC0) * 256 + b1, from -16384 to 16127; the first
\* byte 0xFF gives the next 4 bytes as a signed 32-bit integer.  If the
\* stream ends inside the integer, DecompressError is raised.
C20_VariableLengthInteger ==
    (run.fn = "read_variable_length_integer" /\ run.stage = "returned") =>
        LET b == run.input
            n == IF b = <<>> THEN 1 ELSE IF b[1] < 128 THEN 1 ELSE IF b[1] < 255 THEN 2 ELSE 5
        IN IF Len(b) < n THEN run.d.exc = "DecompressError"
           ELSE /\ run.d.exc = "none"
                /\ run.d.c.pos = n
                /\ run.ret = CASE n = 1 -> b[1]
                               [] n = 2 -> (b[1] - 192) * 256 + b[2]
                               [] OTHER -> Signed32(b, 2)
                /\ n = 1 => run.ret \in 0..127
                /\ n = 2 => run.ret \in -16384..16127

\* a negative integer of two bytes has been read from a longer stream
C20_Witness ==
    /\ run.fn = "read_variable_length_integer" /\ run.stage = "returned"
    /\ run.d.exc = "none"
    /\ run.ret = -16384 + 255
    /\ Len(run.input) > 2

\* the variable-length integer that starts at index i of b: its value and
\* the number of bytes it takes
VliAt(b, i) ==
    IF b[i] < 128 THEN [val |-> b[i], len |-> 1]
    ELSE IF b[i] < 255 THEN [val |-> (b[i] - 192) * 256 + b[i + 1], len |-> 2]
    ELSE [val |-> Signed32(b, i + 1), len |-> 5]

\* the index in b of the k-th of the variable-length integers stored one
\* after the other from index first on
RECURSIVE VliIndex(_, _, _)
VliIndex(b, first, k) ==
    IF k = 1 THEN first
    ELSE VliIndex(b, first, k - 1) + VliAt(b, VliIndex(b, first, k - 1)).len

\* the 4 bytes of (the value of the 4 bytes prev + delta) mod 2^32, added byte
\* by byte from the last one with the carry
Sum32(prev, delta) ==
    LET s0 == prev[4] + (delta % 256)
        s1 == prev[3] + ((delta \div 256) % 256) + (s0 \div 256)
        s2 == prev[2] + ((delta \div 65536) % 256) + (s1 \div 256)
        s3 == prev[1] + ((delta \div 16777216) % 256) + (s2 \div 256)
    IN <<s3 % 256, s2 % 256, s1 % 256, s0 % 256>>

\* the byte b[i] as a signed 8-bit integer
Signed8(b, i) == IF b[i] < 128 THEN b[i] ELSE b[i] - 256

IsBytes(chunk, n) == Len(chunk) = n /\ \A i \in 1..n : chunk[i] \in 0..255

\* a pass of dcmp0 that starts at an extended code 0x00, 0x04 or 0x06 whose
\* first three integers are in the data
ExtendedPass ==
    /\ run.fn = "dcmp0.decompress_stream" /\ run.stage # "returned"
    /\ run'.fn = "dcmp0.decompress_stream"
    /\ LET b == run.input
           p == run.d.c.pos
       IN /\ Len(b) >= p + 3
          /\ b[p + 1] = 254 /\ b[p + 2] \in {0, 4, 6}

\* C21: the extended codes of dcmp0 wrap every accumulated value at its
\* width.  A pass of 0xFE 0x00 emits the 6-byte tail and then entries of 8
\* bytes, each an address of 2 bytes and the same tail, the address after the
\* explicit one being (previous + delta - 6) mod 2^16; a pass of 0xFE 0x04
\* emits values of 2 bytes, each after the first (previous + signed 8-bit
\* delta) mod 2^16; a pass of 0xFE 0x06 emits values of 4 bytes, each after
\* the first (previous + variable-length delta) mod 2^32.  delta mod 2^16 is
\* added in place of delta, which is the same modulo 2^16.  Zeros follow the
\* data so that an integer the data does not hold can be named.
C21_Step ==
    ExtendedPass =>
        LET b == run.input \o Zeros(16)
            p == run.d.c.pos
            kind == b[p + 2]
            new == SubSeq(run'.d.chunks, Len(run.d.chunks) + 1, Len(run'.d.chunks))
            \* jump table: segment number, count, address, then the deltas
            deltas0 == VliIndex(b, p + 3, 4)
            \* 0x06: initial value, count, then the deltas
            deltas6 == VliIndex(b, p + 3, 3)
            \* 0x04: initial value, count, then one byte for each delta
            deltas4 == VliIndex(b, p + 3, 3)
            count == VliAt(b, VliIndex(b, p + 3, 2)).val
        IN /\ kind = 0 =>
                /\ Len(new) - 1 <= Max(count, 0)
                /\ run'.d.exc = "none" => Len(new) - 1 = count
                /\ \A k \in 1..Len(new) : IsBytes(new[k], IF k = 1 THEN 6 ELSE 8)
                /\ \A k \in 2..Len(new) : SubSeq(new[k], 3, 8) = new[1]
                /\ Len(new) >= 2 => U16(new[2], 1) = VliAt(b, VliIndex(b, p + 3, 3)).val
                /\ \A k \in 3..Len(new) :
                       U16(new[k], 1) =
                           (U16(new[k - 1], 1)
                                + (VliAt(b, VliIndex(b, deltas0, k - 2)).val % 65536) - 6) % 65536
           /\ kind = 4 =>
                /\ Len(new) - 1 <= Max(count, 0)
                /\ run'.d.exc = "none" => Len(new) - 1 = count
                /\ \A k \in 1..Len(new) : IsBytes(new[k], 2)
                /\ Len(new) >= 1 => U16(new[1], 1) = VliAt(b, p + 3).val % 65536
                /\ \A k \in 2..Len(new) :
                       U16(new[k], 1) =
                           (U16(new[k - 1], 1) + Signed8(b, deltas4 + k - 2)) % 65536
           /\ kind = 6 =>
                /\ Len(new) - 1 <= Max(count, 0)
                /\ run'.d.exc = "none" => Len(new) - 1 = count
                /\ \A k \in 1..Len(new) : IsBytes(new[k], 4)
                /\ Len(new) >= 1 => new[1] = Sum32(<<0, 0, 0, 0>>, VliAt(b, p + 3).val)
                /\ \A k \in 2..Len(new) :
                       new[k] = Sum32(new[k - 1], VliAt(b, VliIndex(b, deltas6, k - 1)).val)

C21_Wraparound == [][C21_Step]_vars

\* each of the three codes has been decoded to its end with a value that
\* wrapped: a jump table address past 0xffff and one below 0, a 16-bit value
\* from 0xffff to 0, and a 32-bit value from 0xffffffff to 0
C21_Witness ==
    /\ run.fn = "dcmp0.decompress_stream" /\ run.stage = "running"
    /\ run.d.exc = "none"
    /\ \/ /\ run.input[2] = 0 /\ Len(run.d.chunks) = 4
          /\ U16(run.d.chunks[2], 1) = 65534 /\ U16(run.d.chunks[3], 1) = 2
          /\ U16(run.d.chunks[4], 1) = 65532
       \/ /\ run.input[2] = 4 /\ Len(run.d.chunks) = 4
          /\ run.d.chunks[1] = <<255, 255>> /\ run.d.chunks[2] = <<0, 0>>
       \/ /\ run.input[2] = 6 /\ Len(run.d.chunks) = 4
          /\ run.d.chunks[1] = <<255, 255, 255, 255>> /\ run.d.chunks[2] = <<0, 0, 0, 0>>
          /\ run.d.chunks[4] = <<127, 255, 255, 255>>

\* a pass of dcmp1 that has a tag byte to read
Dcmp1Pass ==
    /\ run.fn = "dcmp1.decompress_stream" /\ run.stage # "returned"
    /\ run'.fn = "dcmp1.decompress_stream"
    /\ Len(run.input) > run.d.c.pos

\* the pass took the bytes up to index to of the data and yielded chunk
Yielded(to, chunk) ==
    /\ run'.d.exc = "none" /\ run'.stage = "running"
    /\ run'.d.c.pos = to
    /\ run'.d.chunks = Append(run.d.chunks, chunk)

\* the pass raised exc and yielded nothing
Failed(exc) ==
    /\ run'.d.exc = exc /\ run'.stage = "returned"
    /\ run'.d.chunks = run.d.chunks

\* C22: dcmp1 maps every tag byte to one action: 0x00-0x1F a literal of
\* (low nibble + 1) bytes; 0xD0 and 0xD1 a literal whose length is the next
\* byte; 0x20-0xCF the stored literal of index tag - 0x20; 0xD2 the stored
\* literal of index next byte + 0xB0; 0xD5-0xFD the entry tag - 0xD5 of the
\* built-in table of 41 entries; 0xFE 0x02 a repeat of a 1-byte value (the
\* value and the count less one are variable-length integers); 0xFF the end
\* marker.  0xD3, 0xD4 and every other extended code raise
\* DecompressError.  A literal or an operand the data does not hold raises
\* DecompressError.
C22_Step ==
    Dcmp1Pass =>
        LET b == run.input
            p == run.d.c.pos
            tag == b[p + 1]
            prev == run.d.prev_literals
            Literal(from, n) ==
                IF Len(b) >= from + n - 1
                THEN Yielded(from + n - 1, SubSeq(b, from, from + n - 1))
                ELSE Failed("DecompressError")
            Backreference(to, index) ==
                index < Len(prev) => Yielded(to, prev[index + 1])
            NeedsByte(then) == IF Len(b) >= p + 2 THEN then ELSE Failed("DecompressError")
            \* the two integers of a repeat, the value and the count less one,
            \* named with zeros after the data, and the index of the last byte
            value == VliAt(b \o Zeros(16), p + 3).val
            count == VliAt(b \o Zeros(16), VliIndex(b \o Zeros(16), p + 3, 2)).val + 1
            after == VliIndex(b \o Zeros(16), p + 3, 3) - 1
        IN CASE tag \in 0..31 -> Literal(p + 2, (tag % 16) + 1)
             [] tag \in 32..207 -> tag - 32 \in 0..175 /\ Backreference(p + 1, tag - 32)
             [] tag \in {208, 209} -> NeedsByte(Literal(p + 3, b[p + 2]))
             [] tag = 210 -> NeedsByte(Backreference(p + 2, b[p + 2] + 176))
             [] tag \in {211, 212} -> Failed("DecompressError")
             [] tag \in 213..253 ->
                    /\ Len(DCMP1_TABLE_DATA) = 2 * 41 /\ tag - 213 \in 0..40
                    /\ Yielded(p + 1, <<DCMP1_TABLE_DATA[2 * (tag - 213) + 1],
                                        DCMP1_TABLE_DATA[2 * (tag - 213) + 2]>>)
             [] tag = 254 ->
                    NeedsByte(IF b[p + 2] = 2 /\ Len(b) >= after /\ value \in 0..255 /\ count > 0
                              THEN Yielded(after, [i \in 1..count |-> value])
                              ELSE Failed("DecompressError"))
             [] tag = 255 ->
                    /\ run'.d.chunks = run.d.chunks /\ run'.stage = "returned"
                    /\ run'.d.exc = IF Len(b) > p + 1 THEN "DecompressError" ELSE "none"

C22_TagMap == [][C22_Step]_vars

\* after 177 stored literals the tags 0xcf and 0xd2 0x00 have yielded the
\* literals of index 175 and 176
C22_Witness ==
    /\ run.fn = "dcmp1.decompress_stream" /\ run.stage = "running"
    /\ Len(run.d.prev_literals) = 177
    /\ Len(run.d.chunks) = 179
    /\ run.d.chunks[178] = <<8>> /\ run.d.chunks[179] = <<9>>

\* the bytes of the wrapped stream p that have not been read
Unread(p) == p.readahead \o SubSeq(p.c.data, p.c.pos + 1, Len(p.c.data))

Tagged(r) == (r.header_info.parameters[4] \div ParameterFlags_TAGGED) % 2 = 1

\* a pass of _decompress_tagged or _decompress_untagged
Dcmp2Pass ==
    /\ run.fn = "dcmp2.decompress_stream" /\ run.stage = "running"
    /\ run'.fn = "dcmp2.decompress_stream"

\* in a block with the tag byte tag, the bit, from bit k on (7 for the
\* highest), whose unit starts when exactly one byte is left, rem bytes
\* being left at bit k; -1 if there is none
RECURSIVE LastByteBit(_, _, _)
LastByteBit(tag, k, rem) ==
    IF rem <= 0 \/ k < 0 THEN -1
    ELSE IF rem = 1 THEN k
    ELSE LastByteBit(tag, k - 1, rem - (IF (tag \div (2 ^ k)) % 2 = 1 THEN 1 ELSE 2))

\* the pass took the last byte of the data and yielded it as a chunk of its own
LastByteVerbatim ==
    LET rest == Unread(run.d.c)
    IN /\ Unread(run'.d.c) = <<>>
       /\ Len(run'.d.chunks) > Len(run.d.chunks)
       /\ run'.d.chunks[Len(run'.d.chunks)] = <<rest[Len(rest)]>>

\* C23: in dcmp2, tagged or not, when the declared decompressed length is odd
\* and the decoder comes to a tag, a table reference or a literal with
\* exactly one byte of data left, that byte is emitted as a literal of one
\* byte, at any place of a tagged block.
C23_Step ==
    (/\ Dcmp2Pass
     /\ run.header_info.decompressed_length % 2 = 1
     /\ run'.d.exc = "none") =>
        LET rest == Unread(run.d.c)
        IN (\/ Len(rest) = 1
            \/ /\ Tagged(run) /\ Len(rest) >= 2
               /\ LastByteBit(rest[1], 7, Len(rest) - 1) >= 0) => LastByteVerbatim

C23_TrailingByte == [][C23_Step]_vars

\* what holds: the byte is emitted as a literal where a tag byte (tagged) or
\* a table index (untagged) is read at the head of the while loop, and
\* where a clear bit of the tag asks for a literal
C23_Head_Step ==
    (/\ Dcmp2Pass
     /\ run.header_info.decompressed_length % 2 = 1
     /\ run'.d.exc = "none") =>
        LET rest == Unread(run.d.c)
            bit == LastByteBit(rest[1], 7, Len(rest) - 1)
        IN (\/ Len(rest) = 1
            \/ /\ Tagged(run) /\ Len(rest) >= 2
               /\ bit >= 0 /\ (rest[1] \div (2 ^ bit)) % 2 = 0) => LastByteVerbatim

C23_AtHeadOrLiteral == [][C23_Head_Step]_vars

\* the last byte has been taken as a literal at the head of the loop, after
\* a block of 8 references
C23_LiteralAtHead ==
    /\ run.fn = "dcmp2.decompress_stream" /\ run.stage = "returned"
    /\ run.input = <<255, 0, 1, 2, 3, 4, 5, 6, 7, 9>>
    /\ Len(run.d.chunks) = 9 /\ run.d.chunks[9] = <<9>>

\* the last byte has been taken as a literal inside a block
C23_LiteralInBlock ==
    /\ run.fn = "dcmp2.decompress_stream" /\ run.stage = "running"
    /\ run.input = <<128, 5, 67>>
    /\ run.d.chunks = <<DCMP2_DEFAULT_TABLE[6], <<67>>>>

\* with 3 bytes declared the last byte, 5, has been decoded as a table
\* reference inside a block: 4 bytes are yielded
C23_ReferenceInBlock ==
    /\ run.fn = "dcmp2.decompress_stream" /\ run.stage = "running"
    /\ run.header_info.decompressed_length = 3
    /\ run.input = <<64, 65, 66, 5>>
    /\ run.d.chunks = <<<<65, 66>>, DCMP2_DEFAULT_TABLE[6]>>
    /\ Unread(run.d.c) = <<>>

\* the units of a block with the tag byte tag from bit k on (7 for the
\* highest), bytes being the data after the tag: the chunks emitted and the
\* number of bytes taken, [chunks, taken]
RECURSIVE Units(_, _, _, _)
Units(table, tag, k, bytes) ==
    IF k < 0 \/ bytes = <<>> THEN [chunks |-> <<>>, taken |-> 0]
    ELSE LET n == IF (tag \div (2 ^ k)) % 2 = 1 THEN 1 ELSE Min(2, Len(bytes))
             unit == IF (tag \div (2 ^ k)) % 2 = 1 THEN table[bytes[1] + 1]
                     ELSE SubSeq(bytes, 1, n)
             more == Units(table, tag, k - 1, SubSeq(bytes, n + 1, Len(bytes)))
         IN [chunks |-> <<unit>> \o more.chunks, taken |-> n + more.taken]

\* a pass of _decompress_tagged that reads a tag byte
BlockPass ==
    /\ Dcmp2Pass /\ Tagged(run)
    /\ Unread(run.d.c) # <<>>
    /\ ~(Len(Unread(run.d.c)) = 1 /\ run.header_info.decompressed_length % 2 = 1)

\* C24: a block of dcmp2 tagged data is a tag byte and up to 8 units, taken
\* from the highest bit of the tag to the lowest: a set bit takes one byte
\* and emits the table entry of that index, a clear bit copies the next two
\* bytes (one if one is left); when the data ends inside a block the other
\* bits are ignored and the decoding ends without an error.
C24_Step ==
    /\ (BlockPass /\ run'.d.exc = "none") =>
          LET rest == Unread(run.d.c)
              block == Units(run.table, rest[1], 7, Tail(rest))
          IN /\ run'.d.chunks = run.d.chunks \o block.chunks
             /\ Len(block.chunks) <= 8
             /\ Unread(run'.d.c) = SubSeq(rest, block.taken + 2, Len(rest))
             /\ run'.stage = "running"
    /\ (Dcmp2Pass /\ Tagged(run) /\ Unread(run.d.c) = <<>>) =>
          /\ run'.stage = "returned" /\ run'.d.exc = "none"
          /\ run'.d.chunks = run.d.chunks

C24_TaggedBlocks == [][C24_Step]_vars

\* a block of references and literals by turns has been decoded, and after
\* it a block that ends after its first unit
C24_Witness ==
    /\ run.fn = "dcmp2.decompress_stream" /\ run.stage = "returned"
    /\ run.d.exc = "none"
    /\ Len(run.d.chunks) = 9
    /\ run.input[1] = 170
    /\ run.d.chunks[1] = DCMP2_DEFAULT_TABLE[1] /\ run.d.chunks[2] = <<65, 66>>
    /\ run.d.chunks[7] = DCMP2_DEFAULT_TABLE[4] /\ run.d.chunks[8] = <<71, 72>>
    /\ run.d.chunks[9] = <<73, 74>>

\* dcmp2.decompress_stream has chosen its table or failed to, for flags
\* with a meaning
TableChosen ==
    /\ run.fn = "dcmp2.decompress_stream" /\ run.stage # "called"
    /\ run.header_info.parameters[4] \in 0..3

CustomTable(r) == (r.header_info.parameters[4] \div ParameterFlags_CUSTOM_TABLE) % 2 = 1

\* the call failed with DecompressError before anything was decoded
TableRefused ==
    /\ run.stage = "returned" /\ run.d.exc = "DecompressError"
    /\ run.table = <<>> /\ run.d.chunks = <<>>

\* the table of dcmp2.decompress_stream is chosen as C25 says, the default
\* table being one of entries entries
TableSelection(entries) ==
    TableChosen =>
        LET count == run.header_info.parameters[3] + 1
        IN IF CustomTable(run)
           THEN IF Len(run.input) >= 2 * count
                THEN /\ Len(run.table) = count
                     /\ \A i \in 1..count :
                            run.table[i] = <<run.input[2 * i - 1], run.input[2 * i]>>
                     /\ run.d.c.c.pos + Len(run.d.c.readahead) >= 2 * count
                ELSE TableRefused
           ELSE IF count # 1 THEN TableRefused
           ELSE /\ Len(run.table) = entries
                /\ \A i \in 1..entries :
                       run.table[i] = <<DCMP2_DEFAULT_TABLE_DATA[2 * i - 1],
                                        DCMP2_DEFAULT_TABLE_DATA[2 * i]>>

\* C25 as stated: with the custom-table flag dcmp2 reads (table-size-minus-one
\* + 1) entries of two bytes from the start of the data as its table and
\* fails with DecompressError if the data is too short for them; without the
\* flag it uses the built-in default table of 128 entries and fails with
\* DecompressError if the table-size field is not zero.
C25_TableSelection128 == TableSelection(128)

\* C25 amended: the same, the built-in default table having 256 entries.
C25_TableSelection == TableSelection(256) /\ Len(DCMP2_DEFAULT_TABLE_DATA) = 512

\* untagged data has been decoded with the default table up to a reference
\* to its entry of index 255
C25_Witness ==
    /\ run.fn = "dcmp2.decompress_stream" /\ run.stage = "running"
    /\ ~CustomTable(run) /\ ~Tagged(run)
    /\ run.input = <<0, 255, 9>>
    /\ Len(run.table) = 256
    /\ run.d.chunks = <<run.table[1], run.table[256]>>

\* a custom table of 16 entries has been read and its last entry yielded
C25_CustomTable ==
    /\ run.fn = "dcmp2.decompress_stream" /\ run.stage = "running"
    /\ CustomTable(run)
    /\ Len(run.table) = 16
    /\ run.d.chunks = <<run.table[16]>>

\* a pass of dcmp0 or dcmp1 came to the end of the data: a read gave fewer
\* bytes than it asked for
Exhausted ==
    run'.d.c.asked - run.d.c.asked > run'.d.c.pos - run.d.c.pos

C26_Step ==
    (Decoding(run) /\ run.stage # "returned" /\ Decoding(run')) =>
        \* the call completes only in a pass that reads the end marker
        /\ (run'.stage = "returned" /\ run'.d.exc = "none") =>
               ByteAhead(run.d.c, 1) = 255
        \* data that ends anywhere else raises DecompressError
        /\ (Exhausted /\ ByteAhead(run.d.c, 1) # 255) =>
               (run'.stage = "returned" /\ run'.d.exc = "DecompressError")
        \* and no pass leaves the stream where it was
        /\ run'.stage = "running" => run'.d.c.pos > run.d.c.pos

\* C26: every call of a codec (dcmp0, dcmp1, dcmp2) on finite data ends, by
\* completing or by raising an exception; dcmp0 and dcmp1 complete only
\* after reading the end marker, and data that ends before it, inside a
\* literal, an operand or an extended code, raises DecompressError.
C26_Terminates == <>(run.stage = "returned") /\ [][C26_Step]_vars

\* dcmp0 has raised DecompressError at the end of data that stops inside
\* the 32-bit differences of an extended code, after yielding three chunks
C26_Witness ==
    /\ run.fn = "dcmp0.decompress_stream" /\ run.stage = "returned"
    /\ run.d.exc = "DecompressError"
    /\ run.input = <<1, 65, 66, 254, 6, 5, 2, 1, 255, 0>>
    /\ Len(run.d.chunks) = 3
    /\ run.d.c.pos = Len(run.input) /\ run.d.c.asked > Len(run.input)

\* dcmp2 has come to the end of its data inside a block and returned
C26_Dcmp2Returned ==
    /\ run.fn = "dcmp2.decompress_stream" /\ run.stage = "returned"
    /\ run.d.exc = "none"
    /\ run.input = <<192, 5, 6>>


\* the header of a block of compressed data, as parse_stream reads it
BlockHeader(block) == parse_header(SubSeq(block, 1, STRUCT_COMPRESSED_HEADER_size))

\* what decompress_stream_parsed gives for the bytes of a block that come
\* after its header of 18 bytes
PayloadRun(block) ==
    decompress_stream_parsed(BlockHeader(block).ret,
        [data |-> block, pos |-> STRUCT_COMPRESSED_HEADER_size, reads |-> 0, asked |-> 0])

\* Resource.data has answered for a compressed resource whose header
\* parse_stream accepts
DataOfAccepted ==
    /\ last[1].op = "data"
    /\ objs[1].pc = "Ready"
    /\ IsCompressed(objs[1], last[1].ti, last[1].ri)
    /\ Len(RawBlock(objs[1], last[1].ti, last[1].ri)) >= STRUCT_COMPRESSED_HEADER_size
    /\ BlockHeader(RawBlock(objs[1], last[1].ti, last[1].ri)).exc = "none"

\* Resource.data has answered what the codec gives for the payload after the
\* header
AnswersPayloadRun ==
    LET run0 == PayloadRun(RawBlock(objs[1], last[1].ti, last[1].ri))
    IN /\ last[1].exc = run0.exc
       /\ last[1].exc = "none" => last[1].ret.bytes = run0.out

\* C27: for every compressed resource whose header is accepted, with a
\* declared header length of 0x12 or of 0, Resource.data answers what the
\* codec gives for the payload that starts after the 18 bytes of the header:
\* the same bytes, or the same exception.
C27_PayloadStart == DataOfAccepted => AnswersPayloadRun

\* the same for the resources whose header declares a length of 0x12
C27_PayloadStart18 ==
    (DataOfAccepted
       /\ BlockHeader(RawBlock(objs[1], last[1].ti, last[1].ri)).ret.header_length
              = STRUCT_COMPRESSED_HEADER_size)
        => AnswersPayloadRun

\* a resource whose header declares a length of 0x12 has been decompressed
C27_Decoded18 ==
    /\ DataOfAccepted
    /\ BlockHeader(RawBlock(objs[1], last[1].ti, last[1].ri)).ret.header_length
           = STRUCT_COMPRESSED_HEADER_size
    /\ last[1].exc = "none"
    /\ last[1].ret.bytes = <<7, 8, 7, 8>>

\* a resource whose header declares a length of 0: the payload after the
\* header decodes to four bytes, and Resource.data has raised IndexError
C27_HeaderDecoded ==
    /\ DataOfAccepted
    /\ BlockHeader(RawBlock(objs[1], last[1].ti, last[1].ri)).ret.header_length = 0
    /\ PayloadRun(RawBlock(objs[1], last[1].ti, last[1].ri)).exc = "none"
    /\ PayloadRun(RawBlock(objs[1], last[1].ti, last[1].ri)).out = <<7, 8, 7, 8>>
    /\ last[1].exc = "IndexError"


\* reference entry number k of the list stored from an offset on, with the
\* packed field split into attributes and data offset
DiskEntry(img, at, k) ==
    LET e == at + STRUCT_RESOURCE_REFERENCE_size * (k - 1)
    IN [id |-> I16(img, e + 1), name_offset |-> U16(img, e + 3), attributes |-> img[e + 5],
        data_raw_offset |-> (img[e + 6] * 256 + img[e + 7]) * 256 + img[e + 8]]

\* what the parsed directory holds of a resource
ParsedEntry(o, ti, ri) ==
    LET res == Res(o, ti, ri)
    IN [id |-> res.id, name_offset |-> res.name_offset, attributes |-> res.attributes,
        data_raw_offset |-> res.data_raw_offset]

\* the resources of every type are the reference entries stored from
\* where(o, ti) on, as many as were read for the type: every entry has its
\* resource, under the type and under its ID, and every resource is the last
\* entry with its ID
AttributedFrom(o, where(_, _)) ==
    \A ti \in 1..ResourceFile_len(o) :
        LET n == o.reference_counts[ti].val
            at == where(o, ti)
            img == o.src.data
        IN /\ at + STRUCT_RESOURCE_REFERENCE_size * n <= Len(img)
           /\ \A k \in 1..n : \E ri \in 1..LazyResourceMap_len(o, ti) :
                  /\ Res(o, ti, ri).id = DiskEntry(img, at, k).id
                  /\ Res(o, ti, ri).type = ResourceFile_iter(o)[ti]
           /\ \A ri \in 1..LazyResourceMap_len(o, ti) : \E k \in 1..n :
                  /\ ParsedEntry(o, ti, ri) = DiskEntry(img, at, k)
                  /\ \A j \in (k + 1)..n : DiskEntry(img, at, j).id # DiskEntry(img, at, k).id

\* C28: after a successful open, the reference entries attributed to a type
\* are the records stored at the reference-list offset its TypeEntry
\* declares, counted from the start of the type list, wherever the lists are
\* stored.
C28_DeclaredReferenceLists == Opened(objs[1]) => AttributedFrom(objs[1], DeclaredRefsAt)

\* The same with the records taken from where they were read: directly after
\* the type table, the list of one type after that of the type before it.
C28_ReferenceListsAsRead == Opened(objs[1]) => AttributedFrom(objs[1], ReadRefsAt)

\* a file whose reference lists are stored in the order opposite to the type
\* table has been opened: the first type holds the resource of the record
\* stored first, which the second type's entry declares, and not the resource
\* of the record at its own declared offset
C28_OtherTypesRecord ==
    /\ C7_Swapped
    /\ LazyResourceMap_len(objs[1], 1) = 1
    /\ ParsedEntry(objs[1], 1, 1) = DiskEntry(objs[1].src.data, DeclaredRefsAt(objs[1], 2), 1)
    /\ ParsedEntry(objs[1], 1, 1) # DiskEntry(objs[1].src.data, DeclaredRefsAt(objs[1], 1), 1)

\* a file with two types whose lists are stored in the order of the type
\* table has been opened
C28_InTableOrder ==
    /\ objs[1].pc = "Ready"
    /\ ResourceFile_len(objs[1]) = 2
    /\ DeclaredRefsAt(objs[1], 1) < DeclaredRefsAt(objs[1], 2)
    /\ AttributedFrom(objs[1], DeclaredRefsAt)


(***************************************************************************)
(* _PeekableIOWrapper on its own: a caller's peek and read calls on a      *)
(* wrapper around a stream over the bytes input.  run is [fn, input, p,    *)
(* calls, sizes, got, op, size, ret]: the wrapper p, the number of calls   *)
(* made, the sizes of the read calls made and their results one after the  *)
(* other, and the last call with its size and result.  The wrapped stream  *)
(* gives the bytes asked for unless it comes to its end, as a buffered     *)
(* stream does (make_peekable wraps a raw stream in io.BufferedReader).    *)
(***************************************************************************)
MaxPeekCalls == 4

PeekInputs == {<<>>, <<65>>, <<65, 66, 67>>, <<65, 66, 67, 68, 69, 70>>}

PeekSizes == {-1, 0, 1, 2, 4}

InitPeek ==
    /\ \E input \in PeekInputs :
           run = [fn |-> "_PeekableIOWrapper", input |-> input,
                  p |-> make_peekable(BytesIO(input)), calls |-> 0, sizes |-> <<>>,
                  got |-> <<>>, op |-> "none", size |-> 0, ret |-> <<>>]
    /\ objs = <<>>
    /\ last = <<>>
    /\ streams = NoStreams

PeekCalled == run.fn = "_PeekableIOWrapper" /\ run.calls < MaxPeekCalls

\* the caller calls peek(size)
WrapperPeek(size) ==
    /\ PeekCalled
    /\ run' = Bind(PeekableIO_peek(run.p, size), LAMBDA r :
                [run EXCEPT !.p = r.p, !.calls = @ + 1, !.op = "peek", !.size = size,
                            !.ret = r.ret])
    /\ UNCHANGED <<objs, last, streams>>

\* the caller calls read(size)
WrapperRead(size) ==
    /\ PeekCalled
    /\ run' = Bind(PeekableIO_read(run.p, size), LAMBDA r :
                [run EXCEPT !.p = r.p, !.calls = @ + 1, !.op = "read", !.size = size,
                            !.ret = r.ret, !.sizes = Append(@, size), !.got = @ \o r.ret])
    /\ UNCHANGED <<objs, last, streams>>

NextPeek ==
    \/ \E size \in PeekSizes : WrapperPeek(size)
    \/ \E size \in PeekSizes : WrapperRead(size)

SpecPeek == InitPeek /\ [][NextPeek]_vars

\* what read calls of the given sizes return from the stream c, one result
\* after the other
RECURSIVE PlainReads(_, _)
PlainReads(c, sizes) ==
    IF sizes = <<>> THEN <<>>
    ELSE c_read_size(c, Head(sizes)).ret \o PlainReads(c_read_size(c, Head(sizes)).c, Tail(sizes))

\* where the caller of a wrapper is in the wrapped stream
LogicalPosition(p) == p.c.pos - Len(p.readahead)

\* a call of peek leaves the logical position where it was, and a read
\* that follows a peek returns first the bytes the peek showed: all of them
\* and then what follows, or as many of them as the read asks for
C29_Step ==
    /\ run'.op = "peek" => LogicalPosition(run'.p) = LogicalPosition(run.p)
    /\ run'.op = "read" => LogicalPosition(run'.p) = LogicalPosition(run.p) + Len(run'.ret)
    /\ (run.op = "peek" /\ run'.op = "read") =>
           IF run'.size < 0 \/ run'.size > Len(run.ret)
           THEN Prefix(run'.ret, Len(run.ret)) = run.ret
           ELSE run'.ret = Prefix(run.ret, run'.size)

\* the results of the read calls made, one after the other, are what the
\* same read calls return from the wrapped stream without a wrapper, and
\* the logical position is after them
C29_ReadsAsUnwrapped ==
    run.fn = "_PeekableIOWrapper" =>
        /\ run.got = PlainReads(BytesIO(run.input), run.sizes)
        /\ LogicalPosition(run.p) = Len(run.got)

\* C29: for the peek wrapper and any interleaving of peek and read calls,
\* peek never advances the logical position: the results of all read calls
\* together are what the same read calls return from the wrapped stream with
\* no peek calls in between, and a read that follows a peek returns first
\* the bytes that the peek showed.
C29_PeekKeepsPosition == [](C29_ReadsAsUnwrapped) /\ [][C29_Step]_vars

\* a peek has shown bytes, a read has taken some of them, a second peek has
\* shown the rest, and a read has returned the rest and the bytes after it
C29_Witness ==
    /\ run.fn = "_PeekableIOWrapper"
    /\ run.input = <<65, 66, 67, 68, 69, 70>>
    /\ run.calls = 4
    /\ run.sizes = <<1, 4>>
    /\ run.got = <<65, 66, 67, 68, 69>>
    /\ run.op = "read"
    /\ run.ret = <<66, 67, 68, 69>>
    /\ run.p.readahead = <<>>

\* a peek of 4 bytes has read ahead, and a read of 1 byte has left 3 bytes
\* of the readahead
C29_ReadaheadLeft ==
    /\ run.fn = "_PeekableIOWrapper"
    /\ run.op = "read"
    /\ run.size = 1
    /\ Len(run.p.readahead) = 3
    /\ run.p.c.pos = 4
    /\ run.got = <<65>>


(***************************************************************************)
(* SubStream on its own: a caller's seek and read calls on a SubStream     *)
(* over a range of the stream of an opened ResourceFile.  run is [fn, ss,  *)
(* calls, op, offset, whence, size, ret, pos, exc]: the SubStream, the     *)
(* number of calls made, and the last call with its arguments, the bytes   *)
(* or the position it returned and the exception it raised.                *)
(***************************************************************************)
MaxSeekCalls == 3

\* start offset and length of the views: the data of a resource, an empty
\* view, the data section
SubStreamRanges == {<<260, 3>>, <<256, 0>>, <<256, 12>>}

SeekOffsets == {-9, -2, -1, 0, 1, 2, 9}

Whences == {"SEEK_SET", "SEEK_CUR", "SEEK_END"}

InitSubStream ==
    /\ \E r \in SubStreamRanges :
           Bind(SubStream_init(ResourceFile_new(NewStream(Image(Plain)), TRUE, FALSE).o,
                               r[1], r[2]), LAMBDA made :
             /\ made.exc = "none"
             /\ objs = <<made.o>>
             /\ run = [fn |-> "SubStream", ss |-> made.ss, calls |-> 0, op |-> "none",
                       offset |-> 0, whence |-> "SEEK_SET", size |-> 0, ret |-> <<>>,
                       pos |-> 0, exc |-> "none"])
    /\ last = <<NoCall>>
    /\ streams = NoStreams

SubStreamCalled == run.fn = "SubStream" /\ run.calls < MaxSeekCalls

\* the caller calls seek(offset, whence)
SubStreamSeek(offset, whence) ==
    /\ SubStreamCalled
    /\ run' = Bind(SubStream_seek(run.ss, offset, whence), LAMBDA r :
                [run EXCEPT !.ss = r.ss, !.calls = @ + 1, !.op = "seek", !.offset = offset,
                            !.whence = whence, !.ret = <<>>, !.pos = r.ret, !.exc = r.exc])
    /\ UNCHANGED <<objs, last, streams>>

\* the caller calls read(size)
SubStreamRead(size) ==
    /\ SubStreamCalled
    /\ Bind(SubStream_read(objs[1], run.ss, size), LAMBDA r :
         /\ objs' = [objs EXCEPT ![1] = r.o]
         /\ run' = [run EXCEPT !.ss = r.ss, !.calls = @ + 1, !.op = "read", !.size = size,
                               !.ret = r.ret, !.pos = r.ss.seek_position, !.exc = r.exc])
    /\ UNCHANGED <<last, streams>>

\* the caller calls tell()
SubStreamTell ==
    /\ SubStreamCalled
    /\ run' = [run EXCEPT !.calls = @ + 1, !.op = "tell", !.ret = <<>>,
                          !.pos = run.ss.seek_position, !.exc = "none"]
    /\ UNCHANGED <<objs, last, streams>>

NextSubStream ==
    \/ \E offset \in SeekOffsets, whence \in Whences : SubStreamSeek(offset, whence)
    \/ \E size \in {-1, 0, 1, 2} : SubStreamRead(size)
    \/ \E f \in {1} : SubStreamTell

SpecSubStream == InitSubStream /\ [][NextSubStream]_vars

Clamp(length, p) == Max(0, Min(length, p))

\* the position stays in the view
InView == run.fn = "SubStream" => run.ss.seek_position \in 0..run.ss.length

\* a seek that returns sets and returns the position target(length, position
\* before, offset, whence), clamped into the view
SeeksTo(target(_, _, _, _)) ==
    (run'.op = "seek" /\ run'.calls = run.calls + 1 /\ run'.exc = "none") =>
        /\ run'.ss.seek_position
               = Clamp(run.ss.length,
                       target(run.ss.length, run.ss.seek_position, run'.offset, run'.whence))
        /\ run'.pos = run'.ss.seek_position

\* the standard semantics of a seek
StandardTarget(length, position, offset, whence) ==
    CASE whence = "SEEK_SET" -> offset
      [] whence = "SEEK_CUR" -> position + offset
      [] whence = "SEEK_END" -> length + offset

\* the same with the offset of SEEK_END counted backwards from the end
BackwardsTarget(length, position, offset, whence) ==
    CASE whence = "SEEK_SET" -> offset
      [] whence = "SEEK_CUR" -> position + offset
      [] whence = "SEEK_END" -> length - offset

\* a read moves the position by the bytes it returns, and tell returns the
\* position
C30_ReadAndTell ==
    /\ (run'.op = "read" /\ run'.calls = run.calls + 1) =>
           run'.ss.seek_position = run.ss.seek_position + Len(run'.ret)
    /\ (run'.op = "tell" /\ run'.calls = run.calls + 1) =>
           run'.pos = run.ss.seek_position /\ run'.ss = run.ss

\* C30: SubStream.seek follows the standard stream semantics and then
\* clamps: the new position is offset for SEEK_SET, the current position +
\* offset for SEEK_CUR and length + offset for SEEK_END, clamped into
\* [0, length]; after any sequence of seek and read calls the position is in
\* [0, length].
C30_StandardSeek == []InView /\ [][SeeksTo(StandardTarget)]_vars

\* The same with length - offset for SEEK_END.
C30_SeekAsCoded == []InView /\ [][SeeksTo(BackwardsTarget) /\ C30_ReadAndTell]_vars

\* seek(-1, SEEK_END) on a view of 3 bytes has returned 3, and not 2
C30_EndMinusOne ==
    /\ run.fn = "SubStream"
    /\ run.op = "seek"
    /\ run.whence = "SEEK_END"
    /\ run.offset = -1
    /\ run.ss.length = 3
    /\ run.pos = 3

\* seek(2, SEEK_END) on a view of 3 bytes has returned 1, and a read has
\* returned the last two bytes of the view
C30_EndPlusTwo ==
    /\ run.fn = "SubStream"
    /\ run.op = "read"
    /\ run.whence = "SEEK_END"
    /\ run.offset = 2
    /\ run.ss.length = 3
    /\ run.ret = <<2, 3>>
    /\ run.pos = 3

\* a seek beyond either end has been clamped
C30_Clamped ==
    /\ run.fn = "SubStream"
    /\ run.op = "seek"
    /\ run.whence = "SEEK_CUR"
    /\ run.offset \in {-9, 9}
    /\ run.ss.length = 12
    /\ run.calls = 3
    /\ run.pos \in {0, 12}

=============================================================================
